---- MODULE Spec2Model ----
(***************************************************************************)
(* Terminal driver layer of rustyline: src/tty/unix.rs (PosixTerminal,     *)
(* PosixMode, StdinRaw, PosixRawReader, PosixRenderer) and                  *)
(* src/tty/windows.rs (Console, ConsoleMode, ConsoleRawReader,              *)
(* ConsoleRenderer).                                                        *)
(*                                                                         *)
(* Spec        raw-mode lifecycle: enable_raw_mode / disable_raw_mode on    *)
(*             both backends, every OS call free to fail.                   *)
(* SpecResize  the resize bridge: the SIGWINCH flag, the signal handler,    *)
(*             StdinRaw::read / next_char (Unix), ConsoleRawReader::next_key*)
(*             (Windows) and sigwinch().                                    *)
(* SpecKeys    the key decoder: PosixRawReader::next_key, poll, next_char   *)
(*             and the escape_sequence / escape_csi / extended_escape /     *)
(*             escape_o tables, over a byte stream chosen as it is read.    *)
(* SpecPaste   bracketed paste: PosixRawReader::read_pasted_text over input *)
(*             arriving in chunks.                                          *)
(* SpecGeometry calculate_position on both backends, over bounded texts,    *)
(*             column counts and tab stops.                                 *)
(* SpecRender  move_cursor and refresh_line on both backends, with the      *)
(*             terminal cursor that follows what they write.                *)
(* SpecSize    update_size / get_columns / get_rows on a terminal that is   *)
(*             resized.                                                     *)
(* SpecColors  the raw-mode lifecycle with create_writer and the renderer's *)
(*             colors_enabled().                                            *)
(* SpecProbe   the leftmost-cursor probe: move_cursor_at_leftmost and       *)
(*             read_digits_until (Unix).                                    *)
(* SpecUtf8    next_char, call after call, on a stream of well-formed and   *)
(*             malformed UTF-8 (Unix).                                      *)
(* SpecReport  next_key on a terminal that sends cursor-position reports.   *)
(***************************************************************************)
EXTENDS Integers, Sequences, FiniteSets, TLC

VARIABLES
    platform,               \* "unix" | "windows": which backend is compiled in
    log_enabled,            \* a logger accepting target "rustyline" at debug level is installed
    logged,                 \* the set of messages handed to the logger so far
    \* ---- the Terminal struct (PosixTerminal / Console)
    stdin_isatty,
    stdstream_isatty,
    stream_type,            \* "Stdout" | "Stderr"
    ansi_colors_supported,  \* Console only
    \* ---- the operating system's terminal state
    termios,                \* Unix: attribute block of STDIN_FILENO
    stdin_mode,             \* Windows: console mode of the stdin handle
    stdstream_mode,         \* Windows: console mode of the output handle
    bracketed_paste,        \* Unix: the terminal emulator's bracketed-paste state
    \* ---- the guard returned by enable_raw_mode (PosixMode / ConsoleMode)
    mode,
    \* ---- history of the lifecycle calls (observation only)
    call,                   \* the last completed call: [op, ok, err, calls, guard, entry]
    before,                 \* the attribute blocks in force when the enable call that returned `mode` began
    on_written,             \* BRACKETED_PASTE_ON reached the terminal during that enable call
    disables,               \* disable_raw_mode calls made on `mode` so far
    first_ok,               \* the first disable_raw_mode call on `mode` returned Ok
    after_first,            \* the attribute blocks right after that first call
    \* ---- the resize bridge and the raw reader
    SIGWINCH,               \* static SIGWINCH: AtomicBool
    in_handler,             \* Unix: the kernel has started sigwinch_handler and it has not returned
    stdin_queue,            \* bytes (Unix) or INPUT_RECORDs (Windows) waiting in the kernel
    stdin_closed,           \* Unix: end of file on stdin
    pc,                     \* position of the reader call in progress
    errno,                  \* Unix: errno of the libc::read that returned -1
    parser,                 \* Unix: utf8parse::Parser state [state, point]
    receiver,               \* Unix: Utf8 {c, valid}
    surrogate,              \* Windows: next_key's pending high surrogate
    ret,                    \* the last completed reader / renderer call: [op, res, ...]
    noticed,                \* a resize notification set the flag since the last sigwinch() call
    resize_reported,        \* next_key returned WindowResize since the last sigwinch() call
    retried,                \* the read in progress has retried an interrupted libc::read
    arrived_in_call,        \* a resize notification set the flag since the read in progress began
    \* ---- the key decoder (Unix): PosixRawReader::next_key / read_pasted_text
    timeout_ms,             \* PosixRawReader.timeout_ms = config.keyseq_timeout()
    stdin_readable,         \* at least one byte is waiting on stdin (what poll(POLLIN) reports)
    dec,                    \* the decoder call in progress: [op, at, single, chars, seq, buffer, ...]
    \* ---- the geometry engine: calculate_position
    geo,                    \* the call made: [s, orig, cols, tab_stop, done, pos]
    \* ---- the renderer (PosixRenderer / ConsoleRenderer) and the terminal it writes to
    color_mode,             \* Terminal.color_mode: "Enabled" | "Forced" | "Disabled"
    wr,                     \* the renderer object: [created, cols, colors_enabled]; seen (observation):
                            \* ansi_colors_supported when it was constructed
    win,                    \* the terminal's current size: [cols, rows]; ok: the size query succeeds
    cursor,                 \* the terminal's cursor, relative to the first row of the render
    layout,                 \* the Layout the editor holds for what is on screen
    out                     \* the renderer call in progress or last made: [op, ok, old, new,
                            \* before, written, value, at, err, pending, chars, num]

envVars == <<platform, log_enabled, logged>>
termVars == <<stdin_isatty, stdstream_isatty, stream_type, ansi_colors_supported>>
osVars == <<termios, stdin_mode, stdstream_mode, bracketed_paste>>
histVars == <<call, before, on_written, disables, first_ok, after_first>>
ttyVars == <<termVars, osVars, mode, histVars>>
rdVars == <<SIGWINCH, in_handler, stdin_queue, stdin_closed, pc, errno, parser,
            receiver, surrogate, ret, noticed, resize_reported, retried,
            arrived_in_call>>
decVars == <<timeout_ms, stdin_readable, dec>>
geoVars == <<geo>>
\* what the lifecycle and the resize bridge leave alone
renderVars == <<color_mode, wr, win, cursor, layout, out>>
restVars == <<decVars, geoVars, renderVars>>
vars == <<envVars, ttyVars, rdVars, restVars>>

(***************************************************************************)
(* Bounds                                                                  *)
(***************************************************************************)
\* disable_raw_mode calls followed on one guard
MaxDisable == 2
\* bytes / input records waiting in the kernel at once
MaxInput == 2
\* the rows of the render are 0..MaxRow
MaxRow == 2
\* characters move_cursor_at_leftmost reads of the cursor report
MaxReport == 6

\* chunks of input the terminal sends to a reader whose next_char is followed
MaxChunks == 3
\* characters read_pasted_text holds in its buffer
MaxPaste == 5
\* characters of the text calculate_position measures
MaxText == 4
\* terminal width in columns
MaxCols == 3
\* tab stop
MaxTab == 2

(***************************************************************************)
(* Option<T>                                                               *)
(***************************************************************************)
None == <<>>
Some(x) == <<x>>

(***************************************************************************)
(* Logging: debug!/warn!(target: "rustyline", ...)                         *)
(***************************************************************************)
Log(msg) == IF log_enabled THEN logged \cup {msg} ELSE logged

(***************************************************************************)
(* Unix attribute block (termios)                                          *)
(***************************************************************************)
\* CS8 is the two-bit CSIZE field with both bits set
CS8 == {"CSIZE0", "CSIZE1"}

RawInputMask == {"BRKINT", "ICRNL", "INPCK", "ISTRIP", "IXON"}
RawLocalMask == {"ECHO", "ICANON", "IEXTEN", "ISIG"}

\* the block enable_raw_mode derives from the captured one
MakeRaw(t) ==
    [input_flags   |-> t.input_flags \ RawInputMask,
     control_flags |-> t.control_flags \cup CS8,
     local_flags   |-> t.local_flags \ RawLocalMask,
     control_chars |-> [t.control_chars EXCEPT !["VMIN"] = 1, !["VTIME"] = 0]]

\* attribute blocks a terminal may be in when the session starts
InitialTermios ==
    { [input_flags   |-> i,
       control_flags |-> c,
       local_flags   |-> l,
       control_chars |-> [VMIN |-> cc[1], VTIME |-> cc[2]]] :
        i \in {{"ICRNL", "IXON", "IUTF8"}, {"BRKINT", "INPCK", "ISTRIP"}},
        c \in {{"CREAD", "CSIZE0", "CSIZE1"}, {"CREAD", "CSIZE1", "PARENB"}},
        l \in {{"ECHO", "ICANON", "IEXTEN", "ISIG", "ECHOE"}, {"ECHOE"}},
        cc \in {<<1, 0>>, <<4, 5>>} }

NoTermios ==
    [input_flags |-> {}, control_flags |-> {}, local_flags |-> {},
     control_chars |-> [VMIN |-> 0, VTIME |-> 0]]

(***************************************************************************)
(* Windows console modes                                                   *)
(***************************************************************************)
RawClearMask == {"ENABLE_LINE_INPUT", "ENABLE_ECHO_INPUT", "ENABLE_PROCESSED_INPUT"}
RawSetMask ==
    {"ENABLE_EXTENDED_FLAGS", "ENABLE_INSERT_MODE", "ENABLE_QUICK_EDIT_MODE",
     "ENABLE_WINDOW_INPUT"}

ConsoleRaw(m) == (m \ RawClearMask) \cup RawSetMask

InitialStdinModes ==
    { {"ENABLE_LINE_INPUT", "ENABLE_ECHO_INPUT", "ENABLE_PROCESSED_INPUT"},
      {"ENABLE_LINE_INPUT", "ENABLE_ECHO_INPUT", "ENABLE_PROCESSED_INPUT",
       "ENABLE_MOUSE_INPUT", "ENABLE_EXTENDED_FLAGS", "ENABLE_QUICK_EDIT_MODE"},
      {"ENABLE_WINDOW_INPUT", "ENABLE_MOUSE_INPUT"} }

InitialStdstreamModes ==
    { {"ENABLE_PROCESSED_OUTPUT", "ENABLE_WRAP_AT_EOL_OUTPUT"},
      {"ENABLE_PROCESSED_OUTPUT", "ENABLE_WRAP_AT_EOL_OUTPUT",
       "ENABLE_VIRTUAL_TERMINAL_PROCESSING"},
      {} }

(***************************************************************************)
(* The guard and the observation of calls                                  *)
(***************************************************************************)
NoMode == [kind |-> "none"]

\* the attribute blocks the guard is there to restore
Attrs == [termios |-> termios, stdin_mode |-> stdin_mode, stdstream_mode |-> stdstream_mode]

\* what a call finds when it begins
Entry == [attrs |-> Attrs, paste |-> bracketed_paste]

NoCall == [op |-> "none", ok |-> TRUE, err |-> "", calls |-> <<>>, guard |-> None,
           entry |-> Entry]

Sys(f, ok) == [f |-> f, ok |-> ok]

\* the names of the OS calls a completed call made
CallNames(c) == {c.calls[i].f : i \in 1..Len(c.calls)}
\* the OS calls of a completed call that succeeded
Succeeded(c) == {c.calls[i].f : i \in {j \in 1..Len(c.calls) : c.calls[j].ok}}
Failed(c) == {c.calls[i].f : i \in {j \in 1..Len(c.calls) : ~c.calls[j].ok}}

\* the session takes a new guard only when it holds none that is still to be released
CanEnable == mode = NoMode \/ disables >= 1

(***************************************************************************)
(* Unix: PosixTerminal::enable_raw_mode and PosixMode::disable_raw_mode    *)
(***************************************************************************)
\* the TTY check is missing
NotATerminal_Unchecked == FALSE

\* raw-mode entry is refused when the input stream is not a TTY
NotATerminal == ~stdin_isatty

\* the guard keeps the block it has just applied
SavedTermios_Raw(original_mode, raw) == raw

\* the block the guard keeps: the one captured before the raw one was applied
SavedTermios(original_mode, raw) == original_mode

\* the guard records the output stream whatever the write did
GuardOut_Always(write_ok) == Some(stream_type)

\* what the guard records about bracketed paste, from the outcome of writing
\* BRACKETED_PASTE_ON
GuardOut(write_ok) == IF write_ok THEN Some(stream_type) ELSE None

EnableFails(errname, calls) ==
    /\ call' = [op |-> "enable_raw_mode", ok |-> FALSE, err |-> errname,
                calls |-> calls, guard |-> None, entry |-> Entry]
    /\ mode' = NoMode
    /\ disables' = 0
    /\ first_ok' = FALSE
    /\ UNCHANGED <<before, on_written, after_first>>

EnableReturns(guard, calls, wrote_on) ==
    /\ call' = [op |-> "enable_raw_mode", ok |-> TRUE, err |-> "",
                calls |-> calls, guard |-> Some(guard), entry |-> Entry]
    /\ mode' = guard
    /\ before' = Attrs
    /\ on_written' = wrote_on
    /\ disables' = 0
    /\ first_ok' = FALSE
    /\ after_first' = Attrs

PosixTerminal_enable_raw_mode ==
    /\ platform = "unix"
    /\ CanEnable
    /\ \E get_ok, set_ok, write_ok \in BOOLEAN :
        LET original_mode == termios
            raw == MakeRaw(original_mode)
        IN  IF NotATerminal THEN
                /\ EnableFails("ENOTTY", <<>>)
                /\ UNCHANGED <<termios, bracketed_paste, logged>>
            ELSE IF ~get_ok THEN
                /\ EnableFails("tcgetattr", <<Sys("tcgetattr", FALSE)>>)
                /\ UNCHANGED <<termios, bracketed_paste, logged>>
            ELSE IF ~set_ok THEN
                /\ EnableFails("tcsetattr",
                               <<Sys("tcgetattr", TRUE), Sys("tcsetattr", FALSE)>>)
                /\ UNCHANGED <<termios, bracketed_paste, logged>>
            ELSE
                /\ termios' = raw
                /\ bracketed_paste' = (write_ok \/ bracketed_paste)
                /\ logged' = IF write_ok THEN logged
                             ELSE Log("Cannot enable bracketed paste")
                /\ EnableReturns(
                       [kind |-> "PosixMode",
                        termios |-> SavedTermios(original_mode, raw),
                        out |-> GuardOut(write_ok)],
                       <<Sys("tcgetattr", TRUE), Sys("tcsetattr", TRUE),
                         Sys("write_paste_on", write_ok)>>,
                       write_ok)
    /\ UNCHANGED <<platform, log_enabled, termVars, stdin_mode, stdstream_mode, rdVars, restVars>>

\* disable written as a toggle of raw mode
RestoreBlock_Toggle(saved, current) == IF current = saved THEN MakeRaw(saved) ELSE saved

\* the block disable_raw_mode hands to tcsetattr
RestoreBlock(saved, current) == saved

\* the failure of the write is dropped, as enable_raw_mode drops that of its own
PasteOffFailure_Ignored(write_ok) == FALSE

\* `?` on the write of BRACKETED_PASTE_OFF: a failed write ends the call with the error
PasteOffFailure(write_ok) == ~write_ok

DisableReturns(ok, errname, calls) ==
    /\ call' = [op |-> "disable_raw_mode", ok |-> ok, err |-> errname,
                calls |-> calls, guard |-> None, entry |-> Entry]
    /\ disables' = disables + 1
    /\ first_ok' = IF disables = 0 THEN ok ELSE first_ok
    /\ after_first' = IF disables = 0 THEN Attrs' ELSE after_first
    /\ UNCHANGED <<mode, before, on_written>>

PosixMode_disable_raw_mode ==
    /\ platform = "unix"
    /\ mode # NoMode
    /\ disables < MaxDisable
    /\ UNCHANGED <<envVars, termVars, stdin_mode, stdstream_mode, rdVars, restVars>>
    /\ \E set_ok, write_ok \in BOOLEAN :
        LET writes == set_ok /\ mode.out # None
            failed == writes /\ PasteOffFailure(write_ok)
        IN  /\ termios' = IF set_ok THEN RestoreBlock(mode.termios, termios)
                          ELSE termios
            /\ bracketed_paste' = IF writes /\ write_ok THEN FALSE
                                  ELSE bracketed_paste
            /\ DisableReturns(
                   set_ok /\ ~failed,
                   IF ~set_ok THEN "tcsetattr" ELSE IF failed THEN "write" ELSE "",
                   <<Sys("tcsetattr", set_ok)>>
                       \o (IF writes THEN <<Sys("write_paste_off", write_ok)>>
                           ELSE <<>>))

(***************************************************************************)
(* Windows: Console::enable_raw_mode and ConsoleMode::disable_raw_mode     *)
(***************************************************************************)
ConsoleNotATerminal == ~stdin_isatty

\* the stdin mode the guard keeps
SavedStdinMode(original_stdin_mode, raw) == original_stdin_mode

\* check!(SetConsoleMode(stdstream_handle, original_stdstream_mode)): a failed
\* call ends disable_raw_mode with the error
StdstreamRestoreFailure(set_ok) == ~set_ok

Console_enable_raw_mode ==
    /\ platform = "windows"
    /\ CanEnable
    /\ \E get_in_ok, set_in_ok, get_out_ok, set_out_ok \in BOOLEAN :
        LET original_stdin_mode == stdin_mode
            raw == ConsoleRaw(original_stdin_mode)
            original_stdstream_mode == stdstream_mode
            vt == "ENABLE_VIRTUAL_TERMINAL_PROCESSING"
            in_calls == <<Sys("GetConsoleMode(stdin)", TRUE),
                          Sys("SetConsoleMode(stdin)", TRUE)>>
        IN  IF ConsoleNotATerminal THEN
                /\ EnableFails("no stdio handle", <<>>)
                /\ UNCHANGED <<stdin_mode, stdstream_mode, ansi_colors_supported, logged>>
            ELSE IF ~get_in_ok THEN
                /\ EnableFails("GetConsoleMode", <<Sys("GetConsoleMode(stdin)", FALSE)>>)
                /\ UNCHANGED <<stdin_mode, stdstream_mode, ansi_colors_supported, logged>>
            ELSE IF ~set_in_ok THEN
                /\ EnableFails("SetConsoleMode",
                               <<Sys("GetConsoleMode(stdin)", TRUE),
                                 Sys("SetConsoleMode(stdin)", FALSE)>>)
                /\ UNCHANGED <<stdin_mode, stdstream_mode, ansi_colors_supported, logged>>
            ELSE IF ~stdstream_isatty THEN
                /\ stdin_mode' = raw
                /\ UNCHANGED <<stdstream_mode, ansi_colors_supported, logged>>
                /\ EnableReturns(
                       [kind |-> "ConsoleMode",
                        original_stdin_mode |-> SavedStdinMode(original_stdin_mode, raw),
                        original_stdstream_mode |-> None],
                       in_calls, FALSE)
            ELSE IF ~get_out_ok THEN
                \* the raw stdin mode is already applied when this call fails
                /\ stdin_mode' = raw
                /\ EnableFails("GetConsoleMode",
                               in_calls \o <<Sys("GetConsoleMode(stdstream)", FALSE)>>)
                /\ UNCHANGED <<stdstream_mode, ansi_colors_supported, logged>>
            ELSE IF vt \notin original_stdstream_mode THEN
                /\ stdin_mode' = raw
                /\ stdstream_mode' = IF set_out_ok THEN original_stdstream_mode \cup {vt}
                                     ELSE original_stdstream_mode
                /\ ansi_colors_supported' = set_out_ok
                /\ logged' = Log("ansi_colors_supported")
                /\ EnableReturns(
                       [kind |-> "ConsoleMode",
                        original_stdin_mode |-> SavedStdinMode(original_stdin_mode, raw),
                        original_stdstream_mode |-> Some(original_stdstream_mode)],
                       in_calls \o <<Sys("GetConsoleMode(stdstream)", TRUE),
                                     Sys("SetConsoleMode(stdstream)", set_out_ok)>>,
                       FALSE)
            ELSE
                /\ stdin_mode' = raw
                /\ ansi_colors_supported' = TRUE
                /\ logged' = Log("ANSI colors already enabled")
                /\ UNCHANGED stdstream_mode
                /\ EnableReturns(
                       [kind |-> "ConsoleMode",
                        original_stdin_mode |-> SavedStdinMode(original_stdin_mode, raw),
                        original_stdstream_mode |-> Some(original_stdstream_mode)],
                       in_calls \o <<Sys("GetConsoleMode(stdstream)", TRUE)>>,
                       FALSE)
    /\ UNCHANGED <<platform, log_enabled, stdin_isatty, stdstream_isatty, stream_type,
                   termios, bracketed_paste, rdVars, restVars>>

ConsoleMode_disable_raw_mode ==
    /\ platform = "windows"
    /\ mode # NoMode
    /\ disables < MaxDisable
    /\ UNCHANGED <<envVars, termVars, termios, bracketed_paste, rdVars, restVars>>
    /\ \E set_in_ok, set_out_ok \in BOOLEAN :
        LET restores_out == set_in_ok /\ mode.original_stdstream_mode # None
            failed == restores_out /\ StdstreamRestoreFailure(set_out_ok)
        IN  /\ stdin_mode' = IF set_in_ok THEN mode.original_stdin_mode ELSE stdin_mode
            /\ stdstream_mode' = IF restores_out /\ set_out_ok
                                 THEN mode.original_stdstream_mode[1]
                                 ELSE stdstream_mode
            /\ DisableReturns(
                   set_in_ok /\ ~failed,
                   IF set_in_ok /\ ~failed THEN "" ELSE "SetConsoleMode",
                   <<Sys("SetConsoleMode(stdin)", set_in_ok)>>
                       \o (IF restores_out
                           THEN <<Sys("SetConsoleMode(stdstream)", set_out_ok)>>
                           ELSE <<>>))

(***************************************************************************)
(* Results of the reader and renderer calls                                *)
(***************************************************************************)
NoKey == [k |-> "", c |-> 0, mods |-> {}]

\* the last completed call: what it was, what it returned, and what the model
\* knows of the moment it was made
NoRet ==
    [op |-> "none", ok |-> TRUE, err |-> "", chr |-> 0, key |-> NoKey,
     flag |-> FALSE, rec |-> "", noticed |-> FALSE, reported |-> FALSE,
     retried |-> FALSE, prev |-> None,
     text |-> <<>>, chars |-> <<>>, single |-> FALSE, poll |-> "", pasted |-> <<>>]

RetErr(op, err) == [NoRet EXCEPT !.op = op, !.ok = FALSE, !.err = err]

\* no decoder call in progress
\*   op      "next_key" | "read_pasted_text"
\*   at      where the call stands: "next_char" (next_key's first read), "poll",
\*           "escape_sequence" (a read inside escape_sequence and the functions
\*           it calls), "read_pasted_text" (the read at the top of its loop)
\*   single  next_key's single_esc_abort argument
\*   chars   the characters next_char has returned to this next_key call
\*   seq     the characters read by the escape_sequence call in progress
\*   buffer  read_pasted_text's buffer
\*   poll    what poll returned to this call: "" | "timeout" | "ready"
\*   marker  how much of ESC [ 2 0 1 ~ the last characters read by this
\*           read_pasted_text call spell (observation only)
NoDec ==
    [op |-> "none", at |-> "", single |-> FALSE, chars |-> <<>>, seq |-> <<>>,
     buffer |-> <<>>, poll |-> "", marker |-> 0]

\* no calculate_position call made
NoGeo ==
    [s |-> <<>>, orig |-> [row |-> 0, col |-> 0], cols |-> 1, tab_stop |-> 1,
     done |-> FALSE, pos |-> [row |-> 0, col |-> 0]]

\* Position::default()
Origin == [row |-> 0, col |-> 0]

\* Layout::default()
NoLayout == [cursor |-> Origin, end |-> Origin]

\* no renderer constructed yet
NoWriter == [created |-> FALSE, cols |-> 0, colors_enabled |-> FALSE, seen |-> FALSE]

\* no renderer call made
NoOut ==
    [op |-> "none", ok |-> TRUE, old |-> NoLayout, new |-> NoLayout,
     before |-> Origin, written |-> <<>>, value |-> 0,
     at |-> "", err |-> "", pending |-> FALSE, chars |-> <<>>, num |-> 0]

\* the renderer is not in use
InitRenderIdle ==
    /\ color_mode = "Enabled"
    /\ wr = NoWriter
    /\ win = [cols |-> 1, rows |-> 1, ok |-> TRUE]
    /\ cursor = Origin
    /\ layout = NoLayout
    /\ out = NoOut

\* the decoder, the geometry engine and the renderer are not in use
InitRestIdle ==
    /\ timeout_ms = -1
    /\ stdin_readable = FALSE
    /\ dec = NoDec
    /\ geo = NoGeo
    /\ InitRenderIdle

(***************************************************************************)
(* Spec: the raw-mode lifecycle                                            *)
(***************************************************************************)
InitEnv ==
    /\ platform \in {"unix", "windows"}
    /\ log_enabled \in BOOLEAN
    /\ logged = {}

\* no reader call in progress, nothing waiting, no resize noticed
InitReaderIdle ==
    /\ SIGWINCH = FALSE
    /\ in_handler = FALSE
    /\ stdin_queue = <<>>
    /\ stdin_closed = FALSE
    /\ pc = "idle"
    /\ errno = ""
    /\ parser = [state |-> "Ground", point |-> 0]
    /\ receiver = [c |-> None, valid |-> TRUE]
    /\ surrogate = 0
    /\ ret = NoRet
    /\ noticed = FALSE
    /\ resize_reported = FALSE
    /\ retried = FALSE
    /\ arrived_in_call = FALSE

\* Term::new, and the terminal as the session finds it
InitTerminal ==
    /\ stdin_isatty \in BOOLEAN
    /\ stdstream_isatty \in BOOLEAN
    /\ stream_type \in {"Stdout", "Stderr"}
    /\ ansi_colors_supported = FALSE
    /\ bracketed_paste = FALSE
    /\ IF platform = "unix"
       THEN /\ termios \in InitialTermios
            /\ stdin_mode = {}
            /\ stdstream_mode = {}
       ELSE /\ termios = NoTermios
            /\ stdin_mode \in InitialStdinModes
            /\ stdstream_mode \in InitialStdstreamModes
    /\ mode = NoMode
    /\ call = NoCall
    /\ before = Attrs
    /\ on_written = FALSE
    /\ disables = 0
    /\ first_ok = FALSE
    /\ after_first = Attrs

Init == InitEnv /\ InitTerminal /\ InitReaderIdle /\ InitRestIdle

Next ==
    \/ PosixTerminal_enable_raw_mode
    \/ PosixMode_disable_raw_mode
    \/ Console_enable_raw_mode
    \/ ConsoleMode_disable_raw_mode

Spec == Init /\ [][Next]_vars

(***************************************************************************)
(* Claims on the raw-mode lifecycle (checked under Spec)                   *)
(***************************************************************************)
\* the flags and control characters that make a block raw
IsRaw(t) ==
    /\ t.input_flags \cap RawInputMask = {}
    /\ t.local_flags \cap RawLocalMask = {}
    /\ CS8 \subseteq t.control_flags
    /\ t.control_chars["VMIN"] = 1
    /\ t.control_chars["VTIME"] = 0

\* C1: raw-mode round trip. After enable_raw_mode and a disable_raw_mode of the
\* returned guard that returns Ok, the attribute blocks (termios; stdin and
\* output console modes) equal those in force when enable_raw_mode began, and
\* that call wrote BRACKETED_PASTE_OFF exactly if enable_raw_mode had written
\* BRACKETED_PASTE_ON; no disable_raw_mode call, failed or not, attempts the
\* write when the enable sequence had not been written.
C1_RoundTrip ==
    call.op = "disable_raw_mode" =>
        /\ "write_paste_off" \in CallNames(call) => on_written
        /\ call.ok =>
             /\ Attrs = before
             /\ ("write_paste_off" \in Succeeded(call)) <=> on_written

C1_Witness ==
    /\ call.op = "disable_raw_mode"
    /\ call.ok
    /\ on_written
    /\ platform = "unix"
    /\ ~IsRaw(before.termios)
    /\ termios = before.termios

\* C2: when the input stream is not a TTY, enable_raw_mode returns an error and
\* no guard, makes no OS call (reads no attribute, writes no paste sequence)
\* and leaves the attribute blocks and the paste state as they were.
C2_NotATty ==
    (call.op = "enable_raw_mode" /\ ~stdin_isatty) =>
        /\ ~call.ok
        /\ call.guard = None
        /\ mode = NoMode
        /\ call.calls = <<>>
        /\ Attrs = call.entry.attrs
        /\ bracketed_paste = call.entry.paste

C2_Witness ==
    /\ call.op = "enable_raw_mode"
    /\ ~stdin_isatty
    /\ ~call.ok
    /\ call.err \in {"ENOTTY", "no stdio handle"}

\* C3: when the write of BRACKETED_PASTE_ON fails, enable_raw_mode still returns
\* Ok with the terminal raw and a guard whose `out` is None; a later
\* disable_raw_mode on a guard taken that way never writes BRACKETED_PASTE_OFF,
\* and restores the block whenever its tcsetattr succeeds.
C3_PasteEnableFailure ==
    /\ (call.op = "enable_raw_mode" /\ "write_paste_on" \in Failed(call)) =>
          /\ call.ok
          /\ call.guard = Some(mode)
          /\ mode.out = None
          /\ termios = MakeRaw(call.entry.attrs.termios)
          /\ IsRaw(termios)
    /\ (call.op = "disable_raw_mode" /\ platform = "unix" /\ ~on_written) =>
          /\ "write_paste_off" \notin CallNames(call)
          /\ bracketed_paste = call.entry.paste
          /\ call.ok <=> "tcsetattr" \in Succeeded(call)
          /\ call.ok => termios = before.termios

C3_Witness ==
    /\ call.op = "disable_raw_mode"
    /\ platform = "unix"
    /\ ~on_written
    /\ mode.out = None
    /\ call.ok
    /\ ~IsRaw(termios)

\* C4: a second (or later) disable_raw_mode on the same guard, after a first
\* call that returned Ok, leaves the attribute blocks exactly as the first call
\* left them, which is the original block.
C4_RestoreIdempotent ==
    (disables >= 2 /\ first_ok) =>
        /\ after_first = before
        /\ Attrs = after_first

C4_Witness ==
    /\ disables >= 2
    /\ first_ok
    /\ call.op = "disable_raw_mode"
    /\ call.ok
    /\ Attrs # [before EXCEPT !.termios = MakeRaw(@), !.stdin_mode = ConsoleRaw(@)]

\* C5: disable_raw_mode returns Ok only if every OS call it made succeeded and
\* the terminal is restored: a failed tcsetattr / SetConsoleMode or a failed
\* write of BRACKETED_PASTE_OFF makes the call return an error.
C5_RestoreFailurePropagates ==
    call.op = "disable_raw_mode" =>
        /\ Failed(call) # {} => ~call.ok
        /\ call.ok =>
             /\ Attrs = before
             /\ on_written => ~bracketed_paste

C5_Witness ==
    /\ call.op = "disable_raw_mode"
    /\ ~call.ok
    /\ "write_paste_off" \in Failed(call)
    /\ termios = before.termios

(***************************************************************************)
(* The resize flag                                                         *)
(***************************************************************************)
\* a plain load: the flag is read and left as it is
CompareAndSwap_LoadOnly(current, expected, new) ==
    [value |-> current, previous |-> current]

\* AtomicBool::compare_and_swap(expected, new): stores `new` if the flag holds
\* `expected`, and returns what the flag held
CompareAndSwap(current, expected, new) ==
    [value |-> IF current = expected THEN new ELSE current, previous |-> current]

\* sigwinch(): check-and-clear of the flag, by the session between reader calls
SigwinchCall ==
    /\ pc = "idle"
    /\ ~in_handler
    /\ LET cas == CompareAndSwap(SIGWINCH, TRUE, FALSE)
       IN  /\ SIGWINCH' = cas.value
           /\ ret' = [NoRet EXCEPT !.op = "sigwinch", !.flag = cas.previous,
                                   !.noticed = noticed, !.reported = resize_reported,
                                   !.prev = IF ret.op = "sigwinch" THEN Some(ret.flag)
                                            ELSE None]
    /\ noticed' = FALSE
    /\ resize_reported' = FALSE
    /\ UNCHANGED <<envVars, ttyVars, restVars, in_handler, stdin_queue, stdin_closed, pc, errno,
                   parser, receiver, surrogate, retried, arrived_in_call>>

PosixRenderer_sigwinch == platform = "unix" /\ SigwinchCall

ConsoleRenderer_sigwinch == platform = "windows" /\ SigwinchCall

(***************************************************************************)
(* Unix: the SIGWINCH signal                                               *)
(***************************************************************************)
\* The kernel delivers SIGWINCH to the process: the handler starts on the main
\* thread, and a libc::read blocked in the kernel is interrupted (the handler is
\* installed with SaFlags::empty(), so without SA_RESTART) and will return -1
\* with EINTR once the handler has returned.
KernelDeliversSIGWINCH ==
    /\ platform = "unix"
    /\ ~in_handler
    /\ in_handler' = TRUE
    /\ IF pc = "blocked"
       THEN pc' = "check" /\ errno' = "EINTR"
       ELSE UNCHANGED <<pc, errno>>
    /\ UNCHANGED <<envVars, ttyVars, restVars, SIGWINCH, stdin_queue, stdin_closed, parser,
                   receiver, surrogate, ret, noticed, resize_reported, retried,
                   arrived_in_call>>

\* extern "C" fn sigwinch_handler: SIGWINCH.store(true); debug!("SIGWINCH")
sigwinch_handler ==
    /\ platform = "unix"
    /\ in_handler
    /\ SIGWINCH' = TRUE
    /\ logged' = Log("SIGWINCH")
    /\ in_handler' = FALSE
    /\ noticed' = TRUE
    /\ arrived_in_call' = (arrived_in_call \/ pc # "idle")
    /\ UNCHANGED <<platform, log_enabled, ttyVars, restVars, stdin_queue, stdin_closed, pc, errno,
                   parser, receiver, surrogate, ret, resize_reported, retried>>

\* another handled signal (SIGCONT after a suspend, ...) interrupts a blocked read
OtherSignalInterruptsRead ==
    /\ platform = "unix"
    /\ ~in_handler
    /\ pc = "blocked"
    /\ pc' = "check"
    /\ errno' = "EINTR"
    /\ UNCHANGED <<envVars, ttyVars, restVars, SIGWINCH, in_handler, stdin_queue, stdin_closed,
                   parser, receiver, surrogate, ret, noticed, resize_reported, retried,
                   arrived_in_call>>

(***************************************************************************)
(* Unix: utf8parse::Parser, as PosixRawReader::next_char drives it         *)
(***************************************************************************)
\* bytes the terminal sends in this model: 'a', and the two bytes of U+00E9
Bytes == {97, 195, 169}

InRange(b, lo, hi) == lo <= b /\ b <= hi

\* State::advance: the next state and the action for a byte
Utf8Transition(state, b) ==
    CASE state = "Ground" ->
            IF InRange(b, 0, 127) THEN <<"Ground", "EmitByte">>
            ELSE IF InRange(b, 194, 223) THEN <<"Tail1", "SetByte2Top">>
            ELSE IF b = 224 THEN <<"U3_2_e0", "SetByte3Top">>
            ELSE IF InRange(b, 225, 236) THEN <<"Tail2", "SetByte3Top">>
            ELSE IF b = 237 THEN <<"U3_2_ed", "SetByte3Top">>
            ELSE IF InRange(b, 238, 239) THEN <<"Tail2", "SetByte3Top">>
            ELSE IF b = 240 THEN <<"Utf8_4_3_f0", "SetByte4">>
            ELSE IF InRange(b, 241, 243) THEN <<"Tail3", "SetByte4">>
            ELSE IF b = 244 THEN <<"Utf8_4_3_f4", "SetByte4">>
            ELSE <<"Ground", "InvalidSequence">>
      [] state = "U3_2_e0" ->
            IF InRange(b, 160, 191) THEN <<"Tail1", "SetByte2">>
            ELSE <<"Ground", "InvalidSequence">>
      [] state = "U3_2_ed" ->
            IF InRange(b, 128, 159) THEN <<"Tail1", "SetByte2">>
            ELSE <<"Ground", "InvalidSequence">>
      [] state = "Utf8_4_3_f0" ->
            IF InRange(b, 144, 191) THEN <<"Tail2", "SetByte3">>
            ELSE <<"Ground", "InvalidSequence">>
      [] state = "Utf8_4_3_f4" ->
            IF InRange(b, 128, 143) THEN <<"Tail2", "SetByte3">>
            ELSE <<"Ground", "InvalidSequence">>
      [] state = "Tail3" ->
            IF InRange(b, 128, 191) THEN <<"Tail2", "SetByte3">>
            ELSE <<"Ground", "InvalidSequence">>
      [] state = "Tail2" ->
            IF InRange(b, 128, 191) THEN <<"Tail1", "SetByte2">>
            ELSE <<"Ground", "InvalidSequence">>
      [] OTHER ->
            IF InRange(b, 128, 191) THEN <<"Ground", "SetByte1">>
            ELSE <<"Ground", "InvalidSequence">>

\* self.parser.advance(&mut self.receiver, b): the parser and the receiver after
\* the byte (the receiver's callbacks are impl Receiver for Utf8)
ParserAdvance(p, r, b) ==
    LET tr == Utf8Transition(p.state, b)
        action == tr[2]
        point ==
            CASE action = "SetByte2Top" -> p.point + (b % 32) * 64
              [] action = "SetByte2"    -> p.point + (b % 64) * 64
              [] action = "SetByte3Top" -> p.point + (b % 16) * 4096
              [] action = "SetByte3"    -> p.point + (b % 64) * 4096
              [] action = "SetByte4"    -> p.point + (b % 8) * 262144
              [] OTHER                  -> 0
        rcv ==
            CASE action = "InvalidSequence" -> [c |-> None, valid |-> FALSE]
              [] action = "EmitByte"        -> [c |-> Some(b), valid |-> TRUE]
              [] action = "SetByte1"        -> [c |-> Some(p.point + (b % 64)), valid |-> TRUE]
              [] OTHER                      -> r
    IN  [parser |-> [state |-> tr[1], point |-> point], receiver |-> rcv]

(***************************************************************************)
(* Unix: StdinRaw::read inside PosixRawReader::next_char                   *)
(*   pc = "read"     about to enter libc::read                              *)
(*   pc = "blocked"  inside libc::read, waiting for input                   *)
(*   pc = "check"    libc::read returned -1, errno set                      *)
(***************************************************************************)
\* the session calls next_char
PosixRawReader_next_char ==
    /\ platform = "unix"
    /\ pc = "idle"
    /\ ~in_handler
    /\ pc' = "read"
    /\ retried' = FALSE
    /\ arrived_in_call' = FALSE
    /\ UNCHANGED <<envVars, ttyVars, restVars, SIGWINCH, in_handler, stdin_queue, stdin_closed,
                   errno, parser, receiver, surrogate, ret, noticed, resize_reported>>

\* libc::read returns 1 with the first waiting byte; StdinRaw::read returns
\* Ok(1) and next_char feeds the byte to the parser
LibcReadReturnsByte ==
    /\ platform = "unix"
    /\ pc \in {"read", "blocked"}
    /\ ~in_handler
    /\ stdin_queue # <<>>
    /\ LET adv == ParserAdvance(parser, receiver, Head(stdin_queue))
       IN  /\ stdin_queue' = Tail(stdin_queue)
           /\ parser' = adv.parser
           /\ IF ~adv.receiver.valid THEN
                  /\ receiver' = adv.receiver
                  /\ pc' = "idle"
                  /\ ret' = [RetErr("next_char", "Utf8Error") EXCEPT !.retried = retried]
              ELSE IF adv.receiver.c # None THEN
                  /\ receiver' = [adv.receiver EXCEPT !.c = None]
                  /\ pc' = "idle"
                  /\ ret' = [NoRet EXCEPT !.op = "next_char", !.chr = adv.receiver.c[1],
                                          !.retried = retried]
              ELSE
                  /\ receiver' = adv.receiver
                  /\ pc' = "read"
                  /\ ret' = ret
    /\ UNCHANGED <<envVars, ttyVars, restVars, SIGWINCH, in_handler, stdin_closed, errno,
                   surrogate, noticed, resize_reported, retried, arrived_in_call>>

\* libc::read returns 0 at end of file; next_char returns Eof
LibcReadReturnsEof ==
    /\ platform = "unix"
    /\ pc \in {"read", "blocked"}
    /\ ~in_handler
    /\ stdin_queue = <<>>
    /\ stdin_closed
    /\ pc' = "idle"
    /\ ret' = [RetErr("next_char", "Eof") EXCEPT !.retried = retried]
    /\ UNCHANGED <<envVars, ttyVars, restVars, SIGWINCH, in_handler, stdin_queue, stdin_closed,
                   errno, parser, receiver, surrogate, noticed, resize_reported, retried,
                   arrived_in_call>>

\* libc::read finds nothing to read and blocks (VMIN = 1, VTIME = 0)
LibcReadBlocks ==
    /\ platform = "unix"
    /\ pc = "read"
    /\ ~in_handler
    /\ stdin_queue = <<>>
    /\ ~stdin_closed
    /\ pc' = "blocked"
    /\ UNCHANGED <<envVars, ttyVars, restVars, SIGWINCH, in_handler, stdin_queue, stdin_closed,
                   errno, parser, receiver, surrogate, ret, noticed, resize_reported,
                   retried, arrived_in_call>>

\* libc::read returns -1 with an error other than EINTR
LibcReadFails ==
    /\ platform = "unix"
    /\ pc = "read"
    /\ ~in_handler
    /\ pc' = "check"
    /\ errno' = "EIO"
    /\ UNCHANGED <<envVars, ttyVars, restVars, SIGWINCH, in_handler, stdin_queue, stdin_closed,
                   parser, receiver, surrogate, ret, noticed, resize_reported, retried,
                   arrived_in_call>>

\* an interrupted read is retried whatever the flag holds
ReadGivesUp_AlwaysRetry(err, flag) == err # "EINTR"

\* error.kind() != Interrupted || SIGWINCH.load(Relaxed): the error is returned
ReadGivesUp(err, flag) == err # "EINTR" \/ flag

\* StdinRaw::read after libc::read returned -1: return the error, or loop
StdinRaw_read_check ==
    /\ platform = "unix"
    /\ pc = "check"
    /\ ~in_handler
    /\ IF ReadGivesUp(errno, SIGWINCH)
       THEN /\ pc' = "idle"
            /\ ret' = [RetErr("next_char", errno) EXCEPT !.retried = retried]
            /\ UNCHANGED retried
       ELSE /\ pc' = "read"
            /\ retried' = TRUE
            /\ UNCHANGED ret
    /\ UNCHANGED <<envVars, ttyVars, restVars, SIGWINCH, in_handler, stdin_queue, stdin_closed,
                   errno, parser, receiver, surrogate, noticed, resize_reported,
                   arrived_in_call>>

\* the user types: a byte reaches the kernel's input queue
TerminalSendsByte ==
    /\ platform = "unix"
    /\ Len(stdin_queue) < MaxInput
    /\ ~stdin_closed
    /\ \E b \in Bytes : stdin_queue' = Append(stdin_queue, b)
    /\ UNCHANGED <<envVars, ttyVars, restVars, SIGWINCH, in_handler, stdin_closed, pc, errno,
                   parser, receiver, surrogate, ret, noticed, resize_reported, retried,
                   arrived_in_call>>

\* the input stream reaches end of file
StdinCloses ==
    /\ platform = "unix"
    /\ ~stdin_closed
    /\ stdin_closed' = TRUE
    /\ UNCHANGED <<envVars, ttyVars, restVars, SIGWINCH, in_handler, stdin_queue, pc, errno,
                   parser, receiver, surrogate, ret, noticed, resize_reported, retried,
                   arrived_in_call>>

(***************************************************************************)
(* Windows: ConsoleRawReader::next_key                                     *)
(***************************************************************************)
KeyRecord(down, vk, uc, cks) ==
    [EventType |-> "KEY_EVENT", bKeyDown |-> down, wVirtualKeyCode |-> vk,
     UnicodeChar |-> uc, dwControlKeyState |-> cks]

OtherRecord(type) ==
    [EventType |-> type, bKeyDown |-> 0, wVirtualKeyCode |-> "", UnicodeChar |-> 0,
     dwControlKeyState |-> {}]

\* input records the console delivers in this model: a resize, a mouse event,
\* a key release, an arrow with Ctrl, 'a', and the surrogate pair of U+1F600
InputRecords ==
    { OtherRecord("WINDOW_BUFFER_SIZE_EVENT"),
      OtherRecord("MOUSE_EVENT"),
      KeyRecord(0, "VK_A", 97, {}),
      KeyRecord(1, "VK_LEFT", 0, {"LEFT_CTRL_PRESSED"}),
      KeyRecord(1, "VK_A", 97, {}),
      KeyRecord(1, "VK_PACKET", 55357, {}),
      KeyRecord(1, "VK_PACKET", 56832, {}) }

KeyPress(k, c, mods) == [k |-> k, c |-> c, mods |-> mods]

\* KeyMods::ctrl_meta_shift
ctrl_meta_shift(ctrl, meta, shift) ==
    (IF ctrl THEN {"CTRL"} ELSE {}) \cup (IF meta THEN {"META"} ELSE {})
        \cup (IF shift THEN {"SHIFT"} ELSE {})

\* keys::char_to_key_press: control characters map to named keys or Ctrl+letter
char_to_key_press(c) ==
    IF c = 27 THEN KeyPress("Esc", 0, {})
    ELSE IF c = 9 THEN KeyPress("Tab", 0, {})
    ELSE IF c = 13 THEN KeyPress("Enter", 0, {})
    ELSE IF c = 8 \/ c = 127 THEN KeyPress("Backspace", 0, {})
    ELSE IF c = 0 THEN KeyPress("Char", 32, {"CTRL"})
    ELSE IF c < 32 THEN KeyPress("Char", c + 64, {"CTRL"})
    ELSE KeyPress("Char", c, {})

\* the match on wVirtualKeyCode for a record without a character
VirtualKey(vk) ==
    CASE vk = "VK_LEFT"   -> Some(<<"Left", 0>>)
      [] vk = "VK_RIGHT"  -> Some(<<"Right", 0>>)
      [] vk = "VK_UP"     -> Some(<<"Up", 0>>)
      [] vk = "VK_DOWN"   -> Some(<<"Down", 0>>)
      [] vk = "VK_DELETE" -> Some(<<"Delete", 0>>)
      [] vk = "VK_HOME"   -> Some(<<"Home", 0>>)
      [] vk = "VK_END"    -> Some(<<"End", 0>>)
      [] vk = "VK_PRIOR"  -> Some(<<"PageUp", 0>>)
      [] vk = "VK_NEXT"   -> Some(<<"PageDown", 0>>)
      [] vk = "VK_INSERT" -> Some(<<"Insert", 0>>)
      [] vk = "VK_F1"     -> Some(<<"F", 1>>)
      [] vk = "VK_F2"     -> Some(<<"F", 2>>)
      [] vk = "VK_F3"     -> Some(<<"F", 3>>)
      [] vk = "VK_F4"     -> Some(<<"F", 4>>)
      [] vk = "VK_F5"     -> Some(<<"F", 5>>)
      [] vk = "VK_F6"     -> Some(<<"F", 6>>)
      [] vk = "VK_F7"     -> Some(<<"F", 7>>)
      [] vk = "VK_F8"     -> Some(<<"F", 8>>)
      [] vk = "VK_F9"     -> Some(<<"F", 9>>)
      [] vk = "VK_F10"    -> Some(<<"F", 10>>)
      [] vk = "VK_F11"    -> Some(<<"F", 11>>)
      [] vk = "VK_F12"    -> Some(<<"F", 12>>)
      [] OTHER            -> None

IsHighSurrogate(u) == 55296 <= u /\ u < 56320
IsLowSurrogate(u) == 56320 <= u /\ u < 57344

\* the first item of std::char::decode_utf16 over the units: Some(code point),
\* or None for an unpaired surrogate
DecodeUtf16(units) ==
    IF IsHighSurrogate(units[1]) THEN
        IF Len(units) >= 2 /\ IsLowSurrogate(units[2])
        THEN Some(65536 + (units[1] - 55296) * 1024 + (units[2] - 56320))
        ELSE None
    ELSE IF IsLowSurrogate(units[1]) THEN None
    ELSE Some(units[1])

\* One turn of next_key's loop on a KEY_EVENT record, with the pending high
\* surrogate: [kind |-> "continue" | "ok" | "err", key, err, surrogate]
KeyEventTurn(rec, sur) ==
    LET cks     == rec.dwControlKeyState
        alt_gr  == {"LEFT_CTRL_PRESSED", "RIGHT_ALT_PRESSED"} \subseteq cks
        alt     == cks \cap {"LEFT_ALT_PRESSED", "RIGHT_ALT_PRESSED"} # {}
        ctrl    == cks \cap {"LEFT_CTRL_PRESSED", "RIGHT_CTRL_PRESSED"} # {}
        meta    == alt /\ ~alt_gr
        shift   == "SHIFT_PRESSED" \in cks
        mods    == ctrl_meta_shift(ctrl, meta, shift)
        utf16   == rec.UnicodeChar
        again   == [kind |-> "continue", key |-> NoKey, err |-> "", surrogate |-> sur]
    IN  IF rec.bKeyDown = 0 /\ rec.wVirtualKeyCode # "VK_MENU" THEN again
        ELSE IF utf16 = 0 THEN
            LET vk == VirtualKey(rec.wVirtualKeyCode)
            IN  IF vk = None THEN again
                ELSE [again EXCEPT !.kind = "ok",
                                   !.key = KeyPress(vk[1][1], vk[1][2], mods)]
        ELSE IF utf16 = 27 THEN
            [again EXCEPT !.kind = "ok", !.key = KeyPress("Esc", 0, mods)]
        ELSE IF IsHighSurrogate(utf16) THEN
            [again EXCEPT !.surrogate = utf16]
        ELSE
            LET orc == IF sur = 0 THEN DecodeUtf16(<<utf16>>)
                       ELSE DecodeUtf16(<<sur, utf16>>)
            IN  IF orc = None THEN [again EXCEPT !.kind = "err", !.err = "Decode"]
                ELSE IF meta THEN
                    [again EXCEPT !.kind = "ok", !.key = KeyPress("Char", orc[1], {"META"})]
                ELSE
                    LET key == char_to_key_press(orc[1])
                    IN  [again EXCEPT
                           !.kind = "ok",
                           !.key = IF key = KeyPress("Tab", 0, {}) /\ shift
                                   THEN KeyPress("BackTab", 0, {})
                                   ELSE IF key = KeyPress("Char", 32, {}) /\ ctrl
                                   THEN KeyPress("Char", 32, {"CTRL"})
                                   ELSE key]

\* the resize branch forgets to raise the flag
ResizeRecordFlag_Unset(flag) == flag

\* SIGWINCH.store(true, SeqCst) on a WINDOW_BUFFER_SIZE_EVENT record
ResizeRecordFlag(flag) == TRUE

\* the session calls next_key
ConsoleRawReader_next_key ==
    /\ platform = "windows"
    /\ pc = "idle"
    /\ pc' = "next_key"
    /\ surrogate' = 0
    /\ UNCHANGED <<envVars, ttyVars, restVars, SIGWINCH, in_handler, stdin_queue, stdin_closed,
                   errno, parser, receiver, ret, noticed, resize_reported, retried,
                   arrived_in_call>>

\* one turn of next_key's loop: ReadConsoleInputW fails, or hands over the first
\* waiting record (it blocks while none waits)
ConsoleRawReader_next_key_turn ==
    /\ platform = "windows"
    /\ pc = "next_key"
    /\ stdin_queue # <<>>
    /\ \E read_ok \in BOOLEAN :
        LET rec == Head(stdin_queue)
            turn == KeyEventTurn(rec, surrogate)
        IN  IF ~read_ok THEN
                /\ pc' = "idle"
                /\ ret' = RetErr("next_key", "Io")
                /\ UNCHANGED <<stdin_queue, SIGWINCH, logged, surrogate, noticed,
                               resize_reported>>
            ELSE IF rec.EventType = "WINDOW_BUFFER_SIZE_EVENT" THEN
                /\ stdin_queue' = Tail(stdin_queue)
                /\ SIGWINCH' = ResizeRecordFlag(SIGWINCH)
                /\ logged' = Log("SIGWINCH")
                /\ pc' = "idle"
                /\ ret' = [RetErr("next_key", "WindowResize") EXCEPT !.rec = rec.EventType]
                /\ noticed' = (noticed \/ SIGWINCH')
                /\ resize_reported' = TRUE
                /\ UNCHANGED surrogate
            ELSE IF rec.EventType # "KEY_EVENT" \/ turn.kind = "continue" THEN
                /\ stdin_queue' = Tail(stdin_queue)
                /\ surrogate' = IF rec.EventType = "KEY_EVENT" THEN turn.surrogate
                                ELSE surrogate
                /\ UNCHANGED <<pc, ret, SIGWINCH, logged, noticed, resize_reported>>
            ELSE
                /\ stdin_queue' = Tail(stdin_queue)
                /\ pc' = "idle"
                /\ ret' = IF turn.kind = "ok"
                          THEN [NoRet EXCEPT !.op = "next_key", !.key = turn.key,
                                             !.rec = rec.EventType]
                          ELSE [RetErr("next_key", turn.err) EXCEPT !.rec = rec.EventType]
                /\ UNCHANGED <<SIGWINCH, logged, surrogate, noticed, resize_reported>>
    /\ UNCHANGED <<platform, log_enabled, ttyVars, restVars, in_handler, stdin_closed, errno,
                   parser, receiver, retried, arrived_in_call>>

\* the console queues an input record
ConsoleQueuesRecord ==
    /\ platform = "windows"
    /\ Len(stdin_queue) < MaxInput
    /\ \E rec \in InputRecords : stdin_queue' = Append(stdin_queue, rec)
    /\ UNCHANGED <<envVars, ttyVars, restVars, SIGWINCH, in_handler, stdin_closed, pc, errno,
                   parser, receiver, surrogate, ret, noticed, resize_reported, retried,
                   arrived_in_call>>

(***************************************************************************)
(* SpecResize: the resize bridge and the raw reader, in an interactive     *)
(* session (both streams are terminals, raw mode is on)                    *)
(***************************************************************************)
InitSession ==
    /\ stdin_isatty = TRUE
    /\ stdstream_isatty = TRUE
    /\ stream_type = "Stdout"
    /\ ansi_colors_supported = (platform = "windows")
    /\ bracketed_paste = (platform = "unix")
    /\ mode = NoMode
    /\ on_written = FALSE
    /\ disables = 0
    /\ first_ok = FALSE
    /\ IF platform = "unix"
       THEN /\ \E t \in InitialTermios :
                 /\ IsRaw(MakeRaw(t))
                 /\ t.control_chars["VMIN"] = 4
                 /\ "IUTF8" \in t.input_flags
                 /\ "PARENB" \notin t.control_flags
                 /\ "ISIG" \in t.local_flags
                 /\ termios = MakeRaw(t)
            /\ stdin_mode = {}
            /\ stdstream_mode = {}
       ELSE /\ termios = NoTermios
            /\ stdin_mode = ConsoleRaw({"ENABLE_LINE_INPUT", "ENABLE_ECHO_INPUT",
                                        "ENABLE_PROCESSED_INPUT"})
            /\ stdstream_mode = {"ENABLE_PROCESSED_OUTPUT", "ENABLE_WRAP_AT_EOL_OUTPUT",
                                 "ENABLE_VIRTUAL_TERMINAL_PROCESSING"}
    /\ call = NoCall
    /\ before = Attrs
    /\ after_first = Attrs

InitResize == InitEnv /\ InitSession /\ InitReaderIdle /\ InitRestIdle

NextResize ==
    \/ PosixRenderer_sigwinch
    \/ ConsoleRenderer_sigwinch
    \/ KernelDeliversSIGWINCH
    \/ sigwinch_handler
    \/ OtherSignalInterruptsRead
    \/ PosixRawReader_next_char
    \/ LibcReadReturnsByte
    \/ LibcReadReturnsEof
    \/ LibcReadBlocks
    \/ LibcReadFails
    \/ StdinRaw_read_check
    \/ TerminalSendsByte
    \/ StdinCloses
    \/ ConsoleRawReader_next_key
    \/ ConsoleRawReader_next_key_turn
    \/ ConsoleQueuesRecord

SpecResize == InitResize /\ [][NextResize]_vars

(***************************************************************************)
(* Claims on the resize bridge (checked under SpecResize)                  *)
(***************************************************************************)
\* C6: sigwinch() is a check-and-clear of the resize flag. The flag is set
\* exactly when a resize notification has arrived since the last sigwinch()
\* call, and each sigwinch() call returns true exactly if one has: the first
\* call after a notification returns true, later calls return false until
\* another notification arrives.
C6_CheckAndClear ==
    /\ SIGWINCH = noticed
    /\ ret.op = "sigwinch" => ret.flag = ret.noticed

C6_Witness ==
    /\ ret.op = "sigwinch"
    /\ ~ret.flag
    /\ ret.prev = Some(TRUE)
    /\ ~SIGWINCH

\* C7: the only effect of running sigwinch_handler is to set the resize flag:
\* it changes no other state of the program and hands nothing to the logger.
C7_HandlerOnlySetsFlag ==
    [][(in_handler /\ ~in_handler') =>
          /\ SIGWINCH'
          /\ UNCHANGED <<envVars, ttyVars, restVars, stdin_queue, stdin_closed, pc, errno, parser,
                         receiver, surrogate, ret, resize_reported, retried>>]_vars

\* C8: in StdinRaw::read, when libc::read has returned -1: an interrupted call
\* (EINTR) is retried, with nothing returned, if the resize flag is false; it
\* is returned as the error, with no further libc::read, if the flag is true;
\* any other error is returned at once. While a read is in progress the flag
\* changes only by the signal handler setting it: the read never clears it.
C8_InterruptedRead ==
    [][/\ (pc = "check" /\ pc' # "check") =>
            IF errno = "EINTR" /\ ~SIGWINCH
            THEN pc' = "read" /\ ret' = ret /\ retried'
            ELSE /\ pc' = "idle"
                 /\ ret'.op = "next_char"
                 /\ ~ret'.ok
                 /\ ret'.err = errno
                 /\ stdin_queue' = stdin_queue
       /\ (platform = "unix" /\ pc # "idle" /\ SIGWINCH' # SIGWINCH) =>
            (in_handler /\ ~in_handler' /\ SIGWINCH')]_vars

C8_Witness ==
    /\ ret.op = "next_char"
    /\ ret.err = "EINTR"
    /\ ret.retried
    /\ SIGWINCH
    /\ pc = "idle"

\* C9: a resize notification that arrives during a next_char call never leaves
\* the call blocked in libc::read with the resize flag set.
C9_NeverBlockedWithFlagSet ==
    ~(pc = "blocked" /\ SIGWINCH /\ arrived_in_call)

\* C10: whenever next_key takes a WINDOW_BUFFER_SIZE_EVENT record it returns the
\* WindowResize error, no key, with the resize flag set; the flag stays set
\* until sigwinch() is called, so the next sigwinch() call after a WindowResize
\* error returns true.
C10_ResizeRecord ==
    /\ (ret.op = "next_key" /\ ret.rec = "WINDOW_BUFFER_SIZE_EVENT") =>
          /\ ~ret.ok
          /\ ret.err = "WindowResize"
          /\ ret.key = NoKey
          /\ SIGWINCH
    /\ resize_reported => SIGWINCH
    /\ (ret.op = "sigwinch" /\ ret.reported) => ret.flag

C10_Witness ==
    /\ platform = "windows"
    /\ ret.op = "sigwinch"
    /\ ret.reported
    /\ ret.flag
    /\ ~SIGWINCH

(***************************************************************************)
(* Unix: characters and keys of the escape-sequence decoder                *)
(***************************************************************************)
\* the code points the decoder tests for, by the character literal of the source
Ord ==
    ("ESC" :> 27) @@ ("CR" :> 13) @@ ("LF" :> 10) @@
    ("[" :> 91) @@ ("O" :> 79) @@ (";" :> 59) @@ ("~" :> 126) @@
    ("0" :> 48) @@ ("1" :> 49) @@ ("2" :> 50) @@ ("3" :> 51) @@ ("4" :> 52) @@
    ("5" :> 53) @@ ("6" :> 54) @@ ("7" :> 55) @@ ("8" :> 56) @@ ("9" :> 57) @@
    ("A" :> 65) @@ ("B" :> 66) @@ ("C" :> 67) @@ ("D" :> 68) @@ ("E" :> 69) @@
    ("F" :> 70) @@ ("H" :> 72) @@ ("P" :> 80) @@ ("Q" :> 81) @@ ("R" :> 82) @@
    ("S" :> 83) @@ ("Z" :> 90) @@
    ("a" :> 97) @@ ("b" :> 98) @@ ("c" :> 99) @@ ("d" :> 100)

\* char::is_digit(10)
is_digit(c) == Ord["0"] <= c /\ c <= Ord["9"]

\* Key::X.into(): the key with no modifiers
Key(k) == KeyPress(k, 0, {})

\* Key::F(n).into()
F(n) == KeyPress("F", n, {})

\* KeyPress::ctrl(key) / KeyPress::shift(key)
ctrl(k) == KeyPress(k, 0, {"CTRL"})
shift(k) == KeyPress(k, 0, {"SHIFT"})

\* KeyPress::meta(c): the character with the Meta modifier
meta(c) == KeyPress("Char", c, {"META"})

\* a decoding function is waiting in next_char for its next character
More == [st |-> "more"]

\* a decoding function returns Ok(key); unsupported: it logged the sequence
Done(key, unsupported) == [st |-> "done", key |-> key, unsupported |-> unsupported]

\* an unsupported sequence is reported as the Escape key
Unsupported_AsEscape == Done(Key("Esc"), TRUE)

\* debug!("unsupported esc sequence: ..."); Key::UnknownEscSeq.into()
Unsupported == Done(Key("UnknownEscSeq"), TRUE)

\* a match whose arms are the rows of `table` and whose `_` arm is unsupported
Match(table, x) == IF x \in DOMAIN table THEN Done(table[x], FALSE) ELSE Unsupported

(***************************************************************************)
(* Unix: the decoding functions, on the characters `s` read after ESC      *)
(* (s[1] is seq1, s[2] is seq2, ...)                                       *)
(***************************************************************************)
\* escape_o: ESC O <seq2>
EscapeOKeys ==
    (Ord["A"] :> Key("Up")) @@ (Ord["B"] :> Key("Down")) @@
    (Ord["C"] :> Key("Right")) @@ (Ord["D"] :> Key("Left")) @@
    (Ord["F"] :> Key("End")) @@ (Ord["H"] :> Key("Home")) @@
    (Ord["P"] :> F(1)) @@ (Ord["Q"] :> F(2)) @@ (Ord["R"] :> F(3)) @@
    (Ord["S"] :> F(4)) @@
    (Ord["a"] :> ctrl("Up")) @@ (Ord["b"] :> ctrl("Down")) @@
    (Ord["c"] :> ctrl("Right")) @@ (Ord["d"] :> ctrl("Left"))

escape_o(s) == IF Len(s) < 2 THEN More ELSE Match(EscapeOKeys, s[2])

\* extended_escape: ESC [ <seq2> ~
TildeKeys ==
    (Ord["1"] :> Key("Home")) @@ (Ord["7"] :> Key("Home")) @@
    (Ord["2"] :> Key("Insert")) @@ (Ord["3"] :> Key("Delete")) @@
    (Ord["4"] :> Key("End")) @@ (Ord["8"] :> Key("End")) @@
    (Ord["5"] :> Key("PageUp")) @@ (Ord["6"] :> Key("PageDown"))

\* extended_escape: ESC [ <seq2> <seq3> ~
FunctionKeys ==
    (<<Ord["1"], Ord["1"]>> :> F(1)) @@ (<<Ord["1"], Ord["2"]>> :> F(2)) @@
    (<<Ord["1"], Ord["3"]>> :> F(3)) @@ (<<Ord["1"], Ord["4"]>> :> F(4)) @@
    (<<Ord["1"], Ord["5"]>> :> F(5)) @@ (<<Ord["1"], Ord["7"]>> :> F(6)) @@
    (<<Ord["1"], Ord["8"]>> :> F(7)) @@ (<<Ord["1"], Ord["9"]>> :> F(8)) @@
    (<<Ord["2"], Ord["0"]>> :> F(9)) @@ (<<Ord["2"], Ord["1"]>> :> F(10)) @@
    (<<Ord["2"], Ord["3"]>> :> F(11)) @@ (<<Ord["2"], Ord["4"]>> :> F(12))

\* extended_escape: ESC [ <seq2> <seq3> <seq4> ~
PasteKeys ==
    (<<Ord["2"], Ord["0"], Ord["0"]>> :> Key("BracketedPasteStart")) @@
    (<<Ord["2"], Ord["0"], Ord["1"]>> :> Key("BracketedPasteEnd"))

\* extended_escape: ESC [ 1 ; <seq4> <seq5>
ModifiedArrows ==
    (<<Ord["5"], Ord["A"]>> :> ctrl("Up")) @@ (<<Ord["5"], Ord["B"]>> :> ctrl("Down")) @@
    (<<Ord["5"], Ord["C"]>> :> ctrl("Right")) @@ (<<Ord["5"], Ord["D"]>> :> ctrl("Left")) @@
    (<<Ord["2"], Ord["A"]>> :> shift("Up")) @@ (<<Ord["2"], Ord["B"]>> :> shift("Down")) @@
    (<<Ord["2"], Ord["C"]>> :> shift("Right")) @@ (<<Ord["2"], Ord["D"]>> :> shift("Left"))

\* extended_escape: ESC [ <seq2> <seq3>, the last arm
ShortArrows ==
    (<<Ord["5"], Ord["A"]>> :> ctrl("Up")) @@ (<<Ord["5"], Ord["B"]>> :> ctrl("Down")) @@
    (<<Ord["5"], Ord["C"]>> :> ctrl("Right")) @@ (<<Ord["5"], Ord["D"]>> :> ctrl("Left"))

\* Handle ESC [ <seq2:digit> escape sequences
extended_escape(s) ==
    IF Len(s) < 3 THEN More
    ELSE
    LET seq2 == s[2]
        seq3 == s[3]
    IN  IF seq3 = Ord["~"] THEN Match(TildeKeys, seq2)
        ELSE IF is_digit(seq3) THEN
            IF Len(s) < 4 THEN More
            ELSE
            LET seq4 == s[4]
            IN  IF seq4 = Ord["~"] THEN Match(FunctionKeys, <<seq2, seq3>>)
                ELSE IF seq4 = Ord[";"] THEN
                    IF Len(s) < 5 THEN More
                    ELSE IF is_digit(s[5]) THEN
                        IF Len(s) < 6 THEN More
                        ELSE IF is_digit(s[6]) THEN
                            \* 'R' expected
                            IF Len(s) < 7 THEN More
                            ELSE Done(Key("UnknownEscSeq"), FALSE)
                        ELSE IF s[6] = Ord["R"] THEN Done(Key("UnknownEscSeq"), FALSE)
                        ELSE Unsupported
                    ELSE Unsupported
                ELSE IF is_digit(seq4) THEN
                    IF Len(s) < 5 THEN More
                    ELSE IF s[5] = Ord["~"] THEN Match(PasteKeys, <<seq2, seq3, seq4>>)
                    ELSE Unsupported
                ELSE Unsupported
        ELSE IF seq3 = Ord[";"] THEN
            IF Len(s) < 4 THEN More
            ELSE IF is_digit(s[4]) THEN
                IF Len(s) < 5 THEN More
                ELSE IF is_digit(s[5]) THEN
                    \* 'R' expected
                    IF Len(s) < 6 THEN More
                    ELSE Done(Key("UnknownEscSeq"), FALSE)
                ELSE IF seq2 = Ord["1"] THEN Match(ModifiedArrows, <<s[4], s[5]>>)
                ELSE Unsupported
            ELSE Unsupported
        ELSE Match(ShortArrows, <<seq2, seq3>>)

\* escape_csi: ESC [ [ <seq3>, Linux console
LinuxConsoleKeys ==
    (Ord["A"] :> F(1)) @@ (Ord["B"] :> F(2)) @@ (Ord["C"] :> F(3)) @@
    (Ord["D"] :> F(4)) @@ (Ord["E"] :> F(5))

\* the ANSI arrows with Up and Down exchanged
AnsiKeys_UpDown ==
    (Ord["A"] :> Key("Down")) @@ (Ord["B"] :> Key("Up")) @@
    (Ord["C"] :> Key("Right")) @@ (Ord["D"] :> Key("Left")) @@
    (Ord["F"] :> Key("End")) @@ (Ord["H"] :> Key("Home")) @@
    (Ord["Z"] :> Key("BackTab"))

\* escape_csi: ESC [ <seq2>, ANSI
AnsiKeys ==
    (Ord["A"] :> Key("Up")) @@ (Ord["B"] :> Key("Down")) @@
    (Ord["C"] :> Key("Right")) @@ (Ord["D"] :> Key("Left")) @@
    (Ord["F"] :> Key("End")) @@ (Ord["H"] :> Key("Home")) @@
    (Ord["Z"] :> Key("BackTab"))

\* Handle ESC [ <seq2> escape sequences
escape_csi(s) ==
    IF Len(s) < 2 THEN More
    ELSE
    LET seq2 == s[2]
    IN  IF is_digit(seq2) THEN
            IF seq2 \in {Ord["0"], Ord["9"]} THEN Unsupported
            ELSE extended_escape(s)
        ELSE IF seq2 = Ord["["] THEN
            IF Len(s) < 3 THEN More
            ELSE Match(LinuxConsoleKeys, s[3])
        ELSE Match(AnsiKeys, seq2)

\* ESC ESC taken for Meta + ESC
escape_sequence_MetaEsc(s) ==
    IF Len(s) < 1 THEN More
    ELSE
    LET seq1 == s[1]
    IN  IF seq1 = Ord["["] THEN escape_csi(s)
        ELSE IF seq1 = Ord["O"] THEN escape_o(s)
        ELSE Done(meta(seq1), FALSE)

\* Handle ESC <seq1> sequences
escape_sequence(s) ==
    IF Len(s) < 1 THEN More
    ELSE
    LET seq1 == s[1]
    IN  IF seq1 = Ord["["] THEN escape_csi(s)
        ELSE IF seq1 = Ord["O"] THEN escape_o(s)
        ELSE IF seq1 = Ord["ESC"] THEN Done(Key("Esc"), FALSE)
        ELSE Done(meta(seq1), FALSE)

(***************************************************************************)
(* Unix: PosixRawReader::next_key and read_pasted_text                     *)
(***************************************************************************)
\* key-sequence timeouts the session is configured with (ms; -1: none)
Timeouts == {-1, 0, 500}

\* bytes the terminal sends while next_key is reading: ESC, the characters of
\* the escape sequences, 'a', CR, the two bytes of U+00E9 and the byte 0xFF
KeyBytes ==
    {Ord[x] : x \in {"ESC", "[", "O", ";", "~", "0", "1", "2", "5", "A", "B", "C",
                     "D", "F", "H", "Z", "R", "a", "CR"}} \cup {195, 169, 255}

\* the paste-end marker ESC [ 2 0 1 ~
PasteEndMarker == <<Ord["ESC"], Ord["["], Ord["2"], Ord["0"], Ord["1"], Ord["~"]>>

\* what the terminal sends of a bracketed paste, a chunk at a time: a pasted
\* CR, LF, '0' or ESC, the unsupported sequence ESC [ 0, and the marker
PasteChunks ==
    { <<Ord["CR"]>>, <<Ord["LF"]>>, <<Ord["0"]>>, <<Ord["ESC"]>>,
      <<Ord["ESC"], Ord["["], Ord["0"]>>, PasteEndMarker }

\* a poll result of 0 is not taken for a single escape
IsSingleEscape_Never(n) == FALSE

\* Ok(n) if n == 0: single escape
IsSingleEscape(n) == n = 0

\* the timeout next_key hands to poll
PollTimeout(single_esc_abort, t) == IF single_esc_abort /\ t = -1 THEN 0 ELSE t

RECURSIVE Replace(_, _, _)
\* str::replace(from, to): every non-overlapping match, left to right
Replace(s, from, to) ==
    IF Len(s) < Len(from) THEN s
    ELSE IF SubSeq(s, 1, Len(from)) = from
         THEN to \o Replace(SubSeq(s, Len(from) + 1, Len(s)), from, to)
         ELSE <<s[1]>> \o Replace(Tail(s), from, to)

\* only the bare carriage returns are replaced
NormalizedBuffer_CrOnly(buffer) == Replace(buffer, <<Ord["CR"]>>, <<Ord["LF"]>>)

\* buffer.replace("\r\n", "\n") and then .replace("\r", "\n")
NormalizedBuffer(buffer) ==
    Replace(Replace(buffer, <<Ord["CR"], Ord["LF"]>>, <<Ord["LF"]>>),
            <<Ord["CR"]>>, <<Ord["LF"]>>)

\* how much of the marker the characters read spell once c has been read
MarkerAfter(m, c) ==
    IF m < Len(PasteEndMarker) /\ c = PasteEndMarker[m + 1] THEN m + 1
    ELSE IF c = Ord["ESC"] THEN 1
    ELSE 0

\* the receiver is never found invalid
ReceiverInvalid_Never(r) == FALSE

\* !self.receiver.valid
ReceiverInvalid(r) == ~r.valid

\* the call in progress returns Err(err)
DecoderFails(err) ==
    /\ ret' = [RetErr(dec.op, err) EXCEPT !.chars = dec.chars, !.single = dec.single,
                                          !.poll = dec.poll, !.pasted = dec.buffer]
    /\ dec' = NoDec
    /\ UNCHANGED logged

\* next_key returns Ok(key) after debug!("key: {:?}", key); chars: the
\* characters the call has read; unsupported: the sequence was logged
NextKeyReturns(key, chars, poll, unsupported) ==
    /\ ret' = [NoRet EXCEPT !.op = "next_key", !.key = key, !.chars = chars,
                            !.single = dec.single, !.poll = poll]
    /\ dec' = NoDec
    /\ logged' = IF log_enabled
                 THEN logged \cup {"key"}
                          \cup (IF unsupported THEN {"unsupported esc sequence"} ELSE {})
                 ELSE logged

\* the session calls next_key(single_esc_abort); ret describes the last
\* completed call and is blank while a call is in progress
PosixRawReader_next_key ==
    /\ platform = "unix"
    /\ pc = "idle"
    /\ dec.op = "none"
    /\ \E single_esc_abort \in BOOLEAN :
          dec' = [NoDec EXCEPT !.op = "next_key", !.at = "next_char",
                               !.single = single_esc_abort]
    /\ ret' = NoRet
    /\ UNCHANGED <<envVars, ttyVars, SIGWINCH, in_handler, stdin_queue, stdin_closed, pc,
                   errno, parser, receiver, surrogate, noticed, resize_reported, retried,
                   arrived_in_call, timeout_ms, stdin_readable, geoVars, renderVars>>

\* the session calls read_pasted_text (it has seen BracketedPasteStart)
PosixRawReader_read_pasted_text ==
    /\ platform = "unix"
    /\ pc = "idle"
    /\ dec.op = "none"
    /\ dec' = [NoDec EXCEPT !.op = "read_pasted_text", !.at = "read_pasted_text"]
    /\ ret' = NoRet
    /\ UNCHANGED <<envVars, ttyVars, SIGWINCH, in_handler, stdin_queue, stdin_closed, pc,
                   errno, parser, receiver, surrogate, noticed, resize_reported, retried,
                   arrived_in_call, timeout_ms, stdin_readable, geoVars, renderVars>>

\* next_char has returned Ok(c) to the decoding call in progress
DecoderTakesChar(c) ==
    IF dec.op = "next_key" /\ dec.at = "next_char" THEN
        \* let mut key = keys::char_to_key_press(c); if key == KeyPress::ESC ...
        IF char_to_key_press(c) = Key("Esc")
        THEN /\ dec' = [dec EXCEPT !.at = "poll", !.chars = <<c>>]
             /\ UNCHANGED <<ret, logged>>
        ELSE NextKeyReturns(char_to_key_press(c), <<c>>, "", FALSE)
    ELSE IF dec.op = "next_key" THEN
        \* key = self.escape_sequence()?
        LET seq == Append(dec.seq, c)
            res == escape_sequence(seq)
        IN  IF res = More
            THEN /\ dec' = [dec EXCEPT !.seq = seq, !.chars = Append(dec.chars, c)]
                 /\ UNCHANGED <<ret, logged>>
            ELSE NextKeyReturns(res.key, Append(dec.chars, c), dec.poll, res.unsupported)
    ELSE IF dec.at = "read_pasted_text" THEN
        \* match self.next_char()? { '\x1b' => ..., c => buffer.push(c) }
        IF c = Ord["ESC"]
        THEN /\ dec' = [dec EXCEPT !.at = "escape_sequence", !.seq = <<>>,
                                   !.marker = MarkerAfter(dec.marker, c)]
             /\ UNCHANGED <<ret, logged>>
        ELSE /\ Len(dec.buffer) < MaxPaste
             /\ dec' = [dec EXCEPT !.buffer = Append(dec.buffer, c),
                                   !.marker = MarkerAfter(dec.marker, c)]
             /\ UNCHANGED <<ret, logged>>
    ELSE
        \* let key = self.escape_sequence()?; break on BracketedPasteEnd
        LET seq == Append(dec.seq, c)
            res == escape_sequence(seq)
        IN  IF res = More THEN
                /\ dec' = [dec EXCEPT !.seq = seq, !.marker = MarkerAfter(dec.marker, c)]
                /\ UNCHANGED <<ret, logged>>
            ELSE
                /\ logged' = IF res.unsupported THEN Log("unsupported esc sequence")
                             ELSE logged
                /\ IF res.key.k = "BracketedPasteEnd" THEN
                       /\ ret' = [NoRet EXCEPT !.op = "read_pasted_text",
                                               !.text = NormalizedBuffer(dec.buffer),
                                               !.pasted = dec.buffer]
                       /\ dec' = NoDec
                   ELSE
                       /\ dec' = [dec EXCEPT !.at = "read_pasted_text", !.seq = <<>>,
                                             !.marker = MarkerAfter(dec.marker, c)]
                       /\ UNCHANGED ret

\* libc::read has handed byte b to the next_char call of the decoder: the
\* parser advances, and next_char returns Utf8Error, returns a character, or
\* reads on
DecoderRead(b) ==
    LET adv == ParserAdvance(parser, receiver, b)
    IN  /\ parser' = adv.parser
        /\ IF ReceiverInvalid(adv.receiver) THEN
               /\ receiver' = adv.receiver
               /\ DecoderFails("Utf8Error")
           ELSE IF adv.receiver.c # None THEN
               /\ receiver' = [adv.receiver EXCEPT !.c = None]
               /\ DecoderTakesChar(adv.receiver.c[1])
           ELSE
               /\ receiver' = adv.receiver
               /\ UNCHANGED <<dec, ret, logged>>

\* next_key's reads: stdin is readable, and the byte read is any of KeyBytes;
\* more bytes may be waiting behind it or not
DecoderReadsByte ==
    /\ platform = "unix"
    /\ dec.op = "next_key"
    /\ dec.at # "poll"
    /\ stdin_readable
    /\ \E b \in KeyBytes : DecoderRead(b)
    /\ stdin_readable' \in BOOLEAN
    /\ UNCHANGED <<platform, log_enabled, ttyVars, SIGWINCH, in_handler, stdin_queue,
                   stdin_closed, pc, errno, surrogate, noticed, resize_reported, retried,
                   arrived_in_call, timeout_ms, geoVars, renderVars>>

\* read_pasted_text's reads: the first byte of the chunk waiting in the kernel
DecoderReadsPastedByte ==
    /\ platform = "unix"
    /\ dec.op = "read_pasted_text"
    /\ stdin_queue # <<>>
    /\ DecoderRead(Head(stdin_queue))
    /\ stdin_queue' = Tail(stdin_queue)
    /\ UNCHANGED <<platform, log_enabled, ttyVars, SIGWINCH, in_handler, stdin_closed, pc,
                   errno, surrogate, noticed, resize_reported, retried, arrived_in_call,
                   timeout_ms, stdin_readable, geoVars, renderVars>>

\* the terminal sends the next chunk of the paste
TerminalSendsPaste ==
    /\ platform = "unix"
    /\ stdin_queue = <<>>
    /\ ~stdin_closed
    /\ stdin_queue' \in PasteChunks
    /\ UNCHANGED <<envVars, ttyVars, SIGWINCH, in_handler, stdin_closed, pc, errno, parser,
                   receiver, surrogate, ret, noticed, resize_reported, retried,
                   arrived_in_call, restVars>>

\* libc::read returns 0 at end of file: next_char returns Eof
DecoderReadsEof ==
    /\ platform = "unix"
    /\ dec.op # "none"
    /\ dec.at # "poll"
    /\ ~stdin_readable
    /\ stdin_queue = <<>>
    /\ stdin_closed
    /\ DecoderFails("Eof")
    /\ UNCHANGED <<platform, log_enabled, ttyVars, SIGWINCH, in_handler, stdin_queue,
                   stdin_closed, pc, errno, parser, receiver, surrogate, noticed,
                   resize_reported, retried, arrived_in_call, timeout_ms,
                   stdin_readable, geoVars, renderVars>>

\* poll(2) on stdin for POLLIN: the number of ready descriptors, once input
\* is readable (or the stream has hung up) or the timeout has run out
PollResult(readable, closed) == IF readable \/ closed THEN 1 ELSE 0

\* match self.poll(timeout_ms): a signal interrupts the wait, input is (or
\* becomes) readable, or the timeout runs out with nothing to read; with a
\* negative timeout poll waits until one of the first two happens
PosixRawReader_poll ==
    /\ platform = "unix"
    /\ dec.op = "next_key"
    /\ dec.at = "poll"
    /\ LET t == PollTimeout(dec.single, timeout_ms)
           n == PollResult(stdin_readable, stdin_closed)
       IN  \E interrupted \in BOOLEAN :
              IF interrupted THEN
                  \* Err(e) => return Err(e.into())
                  /\ n = 0
                  /\ t # 0
                  /\ DecoderFails("EINTR")
              ELSE
                  /\ n = 0 => t >= 0
                  /\ IF IsSingleEscape(n)
                     THEN NextKeyReturns(Key("Esc"), dec.chars, "timeout", FALSE)
                     ELSE \* escape sequence: enter escape_sequence
                          /\ dec' = [dec EXCEPT !.at = "escape_sequence", !.seq = <<>>,
                                                !.poll = "ready"]
                          /\ UNCHANGED <<ret, logged>>
    /\ UNCHANGED <<platform, log_enabled, ttyVars, SIGWINCH, in_handler, stdin_queue,
                   stdin_closed, pc, errno, parser, receiver, surrogate, noticed,
                   resize_reported, retried, arrived_in_call, timeout_ms,
                   stdin_readable, geoVars, renderVars>>

\* the terminal sends input: stdin becomes readable
TerminalInputArrives ==
    /\ platform = "unix"
    /\ ~stdin_readable
    /\ ~stdin_closed
    /\ stdin_readable' = TRUE
    /\ UNCHANGED <<envVars, ttyVars, rdVars, timeout_ms, dec, geoVars, renderVars>>

(***************************************************************************)
(* SpecKeys: next_key on a byte stream; SpecPaste: read_pasted_text        *)
(***************************************************************************)
InitKeys ==
    /\ platform = "unix"
    /\ log_enabled \in BOOLEAN
    /\ logged = {}
    /\ InitSession
    /\ InitReaderIdle
    /\ timeout_ms \in Timeouts
    /\ stdin_readable \in BOOLEAN
    /\ dec = NoDec
    /\ geo = NoGeo
    /\ InitRenderIdle

NextKeys ==
    \/ PosixRawReader_next_key
    \/ PosixRawReader_poll
    \/ DecoderReadsByte
    \/ DecoderReadsEof
    \/ TerminalInputArrives
    \/ StdinCloses

SpecKeys == InitKeys /\ [][NextKeys]_vars

InitPaste ==
    /\ platform = "unix"
    /\ log_enabled \in BOOLEAN
    /\ logged = {}
    /\ InitSession
    /\ InitReaderIdle
    /\ InitRestIdle

NextPaste ==
    \/ PosixRawReader_read_pasted_text
    \/ DecoderReadsPastedByte
    \/ DecoderReadsEof
    \/ TerminalSendsPaste
    \/ StdinCloses

SpecPaste == InitPaste /\ [][NextPaste]_vars

(***************************************************************************)
(* Claims on the key decoder (checked under SpecKeys)                      *)
(***************************************************************************)
Digits == {Ord[d] : d \in {"0", "1", "2", "3", "4", "5", "6", "7", "8", "9"}}

ArrowLetters == {Ord["A"], Ord["B"], Ord["C"], Ord["D"]}

\* the arrow key a final letter A/B/C/D stands for
ArrowOf(x) ==
    CASE x = Ord["A"] -> "Up"
      [] x = Ord["B"] -> "Down"
      [] x = Ord["C"] -> "Right"
      [] x = Ord["D"] -> "Left"

\* the modifier a parameter 5 / 2 stands for
ModifierOf(m) == IF m = Ord["5"] THEN {"CTRL"} ELSE {"SHIFT"}

\* the rows of the escape-sequence table that start with ESC [ or ESC O,
\* as the characters that follow ESC
EscapeTableRows ==
    {<<Ord["O"], Ord[c]>> :
        c \in {"A", "B", "C", "D", "F", "H", "P", "Q", "R", "S", "a", "b", "c", "d"}}
    \cup {<<Ord["["], Ord["["], Ord[c]>> : c \in {"A", "B", "C", "D", "E"}}
    \cup {<<Ord["["], Ord[c]>> : c \in {"A", "B", "C", "D", "F", "H", "Z"}}
    \cup {<<Ord["["], Ord[n], Ord["~"]>> : n \in {"1", "2", "3", "4", "5", "6", "7", "8"}}
    \cup {<<Ord["["], n1, n2, Ord["~"]>> : n1 \in Digits, n2 \in Digits}
    \cup {<<Ord["["], n, Ord[";"], m, Ord["~"]>> : n \in Digits, m \in Digits}
    \cup {<<Ord["["], Ord["2"], Ord["0"], n, Ord["~"]>> : n \in {Ord["0"], Ord["1"]}}
    \cup {<<Ord["["], m, x>> : m \in {Ord["5"], Ord["2"]}, x \in ArrowLetters}
    \cup {<<Ord["["], Ord["1"], Ord[";"], m, x>> :
             m \in {Ord["5"], Ord["2"]}, x \in ArrowLetters}

\* the last next_key call read ESC and then the characters s
DecodedEscape(s) == ret.op = "next_key" /\ ret.chars = <<Ord["ESC"]>> \o s

\* C11: a next_key call that has read ESC [ ... or ESC O ... fails only because
\* the stream ended or a byte was not UTF-8; when the characters it read after
\* ESC form no row of the escape-sequence table it returns Ok(UnknownEscSeq)
\* with no modifiers.
C11_UnknownNeverFails ==
    (/\ ret.op = "next_key"
     /\ Len(ret.chars) >= 2
     /\ ret.chars[1] = Ord["ESC"]
     /\ ret.chars[2] \in {Ord["["], Ord["O"]})
    => /\ ~ret.ok => ret.err \in {"Eof", "Utf8Error"}
       /\ (ret.ok /\ Tail(ret.chars) \notin EscapeTableRows)
              => ret.key = KeyPress("UnknownEscSeq", 0, {})

C11_Witness ==
    /\ DecodedEscape(<<Ord["["], Ord["1"], Ord[";"], Ord["5"], Ord["5"], Ord["Z"]>>)
    /\ ret.ok
    /\ ret.key = KeyPress("UnknownEscSeq", 0, {})

\* C12: ESC [ X for X in A,B,C,D,F,H,Z decodes to Up/Down/Right/Left/End/Home/
\* BackTab with no modifiers, and ESC [ 1 ; m X for X in A,B,C,D to the arrow
\* with Ctrl when m = 5 and Shift when m = 2.
C12_CsiArrows ==
    /\ \A x \in ArrowLetters :
          DecodedEscape(<<Ord["["], x>>) => ret.ok /\ ret.key = KeyPress(ArrowOf(x), 0, {})
    /\ DecodedEscape(<<Ord["["], Ord["F"]>>) => ret.ok /\ ret.key = KeyPress("End", 0, {})
    /\ DecodedEscape(<<Ord["["], Ord["H"]>>) => ret.ok /\ ret.key = KeyPress("Home", 0, {})
    /\ DecodedEscape(<<Ord["["], Ord["Z"]>>) => ret.ok /\ ret.key = KeyPress("BackTab", 0, {})
    /\ \A m \in {Ord["5"], Ord["2"]}, x \in ArrowLetters :
          DecodedEscape(<<Ord["["], Ord["1"], Ord[";"], m, x>>)
              => ret.ok /\ ret.key = KeyPress(ArrowOf(x), 0, ModifierOf(m))

C12_Witness ==
    /\ DecodedEscape(<<Ord["["], Ord["1"], Ord[";"], Ord["2"], Ord["B"]>>)
    /\ ret.key = KeyPress("Down", 0, {"SHIFT"})

\* C13: ESC [ m X with m in 5, 2 and X in A,B,C,D decodes to the arrow with
\* Ctrl when m = 5 and Shift when m = 2.
C13_ShortModifiedArrows ==
    \A m \in {Ord["5"], Ord["2"]}, x \in ArrowLetters :
        DecodedEscape(<<Ord["["], m, x>>)
            => ret.ok /\ ret.key = KeyPress(ArrowOf(x), 0, ModifierOf(m))

\* C14: when input is pending after ESC, a following ESC gives the plain
\* Escape key and a following character other than '[' and 'O' gives that
\* character with Meta; the call has read exactly two characters.
C14_MetaPrefix ==
    (/\ ret.op = "next_key"
     /\ Len(ret.chars) >= 2
     /\ ret.chars[1] = Ord["ESC"]
     /\ ret.chars[2] \notin {Ord["["], Ord["O"]})
    => /\ ret.ok
       /\ ret.poll = "ready"
       /\ Len(ret.chars) = 2
       /\ ret.key = IF ret.chars[2] = Ord["ESC"] THEN KeyPress("Esc", 0, {})
                    ELSE KeyPress("Char", ret.chars[2], {"META"})

C14_Witness ==
    /\ DecodedEscape(<<Ord["a"]>>)
    /\ ret.key = KeyPress("Char", Ord["a"], {"META"})

\* C15: when poll returns after next_key has read ESC: if nothing is readable
\* (no input arrived within the timeout) the call returns Ok(Esc) having read
\* only the ESC; if input is readable it goes on to decode the escape sequence,
\* and the key it then returns is the one escape_sequence decodes from the
\* characters read after ESC.
C15_SingleEscape ==
    [][/\ (/\ dec.at = "poll"
           /\ dec'.at # "poll"
           /\ ~(ret'.op = "next_key" /\ ret'.err = "EINTR"))
          => IF stdin_readable \/ stdin_closed
             THEN /\ dec'.op = "next_key"
                  /\ dec'.at = "escape_sequence"
                  /\ dec'.chars = <<Ord["ESC"]>>
             ELSE /\ dec' = NoDec
                  /\ ret'.op = "next_key"
                  /\ ret'.ok
                  /\ ret'.key = KeyPress("Esc", 0, {})
                  /\ ret'.chars = <<Ord["ESC"]>>
                  /\ UNCHANGED <<parser, receiver, stdin_readable, stdin_queue>>
       /\ (ret'.op = "next_key" /\ ret'.poll = "ready" /\ ret'.ok)
          => /\ Len(ret'.chars) >= 2
             /\ escape_sequence(Tail(ret'.chars)).st = "done"
             /\ escape_sequence(Tail(ret'.chars)).key = ret'.key
      ]_vars

C15_Witness ==
    /\ ret.op = "next_key"
    /\ ret.poll = "timeout"
    /\ timeout_ms = 500
    /\ ret.key = KeyPress("Esc", 0, {})
    /\ ret.chars = <<Ord["ESC"]>>

\* C16: with keyseq_timeout = -1 and single_esc_abort = true, a next_key call
\* that reads ESC and returns Ok returns the bare Escape key, having read
\* nothing after the ESC.
C16_NoEscapeSupport ==
    (/\ ret.op = "next_key"
     /\ ret.ok
     /\ ret.single
     /\ timeout_ms = -1
     /\ Len(ret.chars) >= 1
     /\ ret.chars[1] = Ord["ESC"])
    => /\ ret.key = KeyPress("Esc", 0, {})
       /\ ret.chars = <<Ord["ESC"]>>

\* C17: when a byte read by next_char is one the UTF-8 parser rejects, the
\* call in progress returns Utf8Error in that very step, with no key, no
\* character and no text, the rejected byte being the last one it consumed.
C17_MalformedFails ==
    [][(/\ dec.op # "none"
        /\ dec.at # "poll"
        /\ stdin_readable
        /\ <<parser, receiver, dec>>' # <<parser, receiver, dec>>
        /\ \E b \in KeyBytes :
              /\ Utf8Transition(parser.state, b)[2] = "InvalidSequence"
              /\ parser' = ParserAdvance(parser, receiver, b).parser
              /\ receiver' = ParserAdvance(parser, receiver, b).receiver)
       => /\ dec' = NoDec
          /\ ret'.op = dec.op
          /\ ~ret'.ok
          /\ ret'.err = "Utf8Error"
          /\ ret'.key = NoKey
          /\ ret'.chr = 0
          /\ ret'.text = <<>>
          /\ ret'.chars = dec.chars
      ]_vars

C17_Witness ==
    /\ ret.op = "next_key"
    /\ ret.err = "Utf8Error"
    /\ ret.chars = <<Ord["ESC"], Ord["["]>>
    /\ parser.state = "Ground"
    /\ ~receiver.valid

(***************************************************************************)
(* Claims on bracketed paste (checked under SpecPaste)                     *)
(***************************************************************************)
RECURSIVE LineEndingsToLf(_)
\* s with every CR LF pair, and every other CR, turned into one LF
LineEndingsToLf(s) ==
    IF s = <<>> THEN <<>>
    ELSE IF s[1] = Ord["CR"] /\ Len(s) >= 2 /\ s[2] = Ord["LF"]
         THEN <<Ord["LF"]>> \o LineEndingsToLf(SubSeq(s, 3, Len(s)))
    ELSE IF s[1] = Ord["CR"]
         THEN <<Ord["LF"]>> \o LineEndingsToLf(Tail(s))
    ELSE <<s[1]>> \o LineEndingsToLf(Tail(s))

\* C18: the text read_pasted_text returns holds no carriage return: it is the
\* accumulated text with each CR LF pair turned into one LF, each remaining CR
\* turned into one LF, and every other character unchanged and in order.
C18_LineEndings ==
    (ret.op = "read_pasted_text" /\ ret.ok)
    => /\ \A i \in 1..Len(ret.text) : ret.text[i] # Ord["CR"]
       /\ ret.text = LineEndingsToLf(ret.pasted)

C18_Witness ==
    /\ ret.op = "read_pasted_text"
    /\ ret.ok
    /\ ret.pasted = <<Ord["0"], Ord["CR"], Ord["CR"], Ord["LF"], Ord["0"]>>
    /\ ret.text = <<Ord["0"], Ord["LF"], Ord["LF"], Ord["0"]>>

\* C19: read_pasted_text is never still reading once the characters it has
\* read end with the paste-end marker ESC [ 2 0 1 ~.
C19_ReturnsAtMarker ==
    ~(dec.op = "read_pasted_text" /\ dec.marker = Len(PasteEndMarker))

(***************************************************************************)
(* The geometry engine: calculate_position on both backends                *)
(***************************************************************************)
\* the characters of the measured texts: 'a', U+4E2D (two columns wide),
\* '1', '[', ESC, tab and newline; each is a grapheme cluster of its own
GeoChars == {97, 20013, Ord["1"], Ord["["], Ord["ESC"], 9, Ord["LF"], Ord["CR"]}

\* UnicodeWidthChar::width: None for a control character
UnicodeWidth(c) ==
    IF c < 32 THEN None
    ELSE IF c = 20013 THEN Some(2)
    ELSE Some(1)

\* UnicodeWidthStr::width of a cluster: a control character counts for 0
StrWidth(c) == IF UnicodeWidth(c) = None THEN 0 ELSE UnicodeWidth(c)[1]

\* fn width(s, esc_seq): the width of the cluster and the new esc_seq
width(c, esc_seq) ==
    IF esc_seq = 1 THEN
        [w |-> 0, esc_seq |-> IF c = Ord["["] THEN 2 ELSE 0]
    ELSE IF esc_seq = 2 THEN
        [w |-> 0, esc_seq |-> IF c = Ord[";"] \/ is_digit(c) THEN 2 ELSE 0]
    ELSE IF c = Ord["ESC"] THEN [w |-> 0, esc_seq |-> 1]
    ELSE IF c = Ord["LF"] THEN [w |-> 0, esc_seq |-> esc_seq]
    ELSE [w |-> StrWidth(c), esc_seq |-> esc_seq]

\* the column only grows: no wrap to the next row
Advance_NoWrap(pos, cw, cols) == [row |-> pos.row, col |-> pos.col + cw]

\* pos.col += cw; if pos.col > self.cols { pos.row += 1; pos.col = cw; }
Advance(pos, cw, cols) ==
    IF pos.col + cw > cols
    THEN [row |-> pos.row + 1, col |-> cw]
    ELSE [row |-> pos.row, col |-> pos.col + cw]

\* if pos.col == self.cols { pos.col = 0; pos.row += 1; }
FinalColumn(pos, cols) ==
    IF pos.col = cols THEN [row |-> pos.row + 1, col |-> 0] ELSE pos

\* s.graphemes(true): the index after the cluster that starts at s[i]; of the
\* characters modelled only CR followed by LF join into one cluster
ClusterEnd(s, i) ==
    IF s[i] = Ord["CR"] /\ i < Len(s) /\ s[i + 1] = Ord["LF"] THEN i + 2 ELSE i + 1

RECURSIVE PosixWalk(_, _, _, _, _, _)
\* the loop of PosixRenderer::calculate_position from the cluster at i on
PosixWalk(s, i, pos, esc_seq, cols, tab_stop) ==
    IF i > Len(s) THEN pos
    ELSE IF ClusterEnd(s, i) = i + 2 THEN
        \* the cluster "\r\n" is neither "\n" nor "\t"; width() treats it as
        \* it treats the control character CR
        LET cw == width(Ord["CR"], esc_seq)
        IN  PosixWalk(s, i + 2, Advance(pos, cw.w, cols), cw.esc_seq, cols, tab_stop)
    ELSE IF s[i] = Ord["LF"] THEN
        PosixWalk(s, i + 1, [row |-> pos.row + 1, col |-> 0], esc_seq, cols, tab_stop)
    ELSE IF s[i] = 9 THEN
        PosixWalk(s, i + 1, Advance(pos, tab_stop - (pos.col % tab_stop), cols),
                  esc_seq, cols, tab_stop)
    ELSE
        LET cw == width(s[i], esc_seq)
        IN  PosixWalk(s, i + 1, Advance(pos, cw.w, cols), cw.esc_seq, cols, tab_stop)

\* PosixRenderer::calculate_position(s, orig)
PosixCalculatePosition(s, orig, cols, tab_stop) ==
    FinalColumn(PosixWalk(s, 1, orig, 0, cols, tab_stop), cols)

RECURSIVE ConsoleWalk(_, _, _, _)
\* the loop of ConsoleRenderer::calculate_position from character i on
ConsoleWalk(s, i, pos, cols) ==
    IF i > Len(s) THEN pos
    ELSE IF s[i] = Ord["LF"] THEN
        ConsoleWalk(s, i + 1, [row |-> pos.row + 1, col |-> 0], cols)
    ELSE IF UnicodeWidth(s[i]) = None THEN ConsoleWalk(s, i + 1, pos, cols)
    ELSE ConsoleWalk(s, i + 1, Advance(pos, UnicodeWidth(s[i])[1], cols), cols)

\* ConsoleRenderer::calculate_position(s, orig)
ConsoleCalculatePosition(s, orig, cols) ==
    FinalColumn(ConsoleWalk(s, 1, orig, cols), cols)

\* the renderer measures the text
PosixRenderer_calculate_position ==
    /\ platform = "unix"
    /\ ~geo.done
    /\ geo' = [geo EXCEPT !.done = TRUE,
                          !.pos = PosixCalculatePosition(geo.s, geo.orig, geo.cols,
                                                         geo.tab_stop)]
    /\ UNCHANGED <<envVars, ttyVars, rdVars, decVars, renderVars>>

ConsoleRenderer_calculate_position ==
    /\ platform = "windows"
    /\ ~geo.done
    /\ geo' = [geo EXCEPT !.done = TRUE,
                          !.pos = ConsoleCalculatePosition(geo.s, geo.orig, geo.cols)]
    /\ UNCHANGED <<envVars, ttyVars, rdVars, decVars, renderVars>>

(***************************************************************************)
(* SpecGeometry: one calculate_position call on a text, a start position,  *)
(* a terminal width and a tab stop                                         *)
(***************************************************************************)
Texts == UNION {[1..n -> GeoChars] : n \in 0..MaxText}

\* "\x1b[1;32m>>\x1b[0m ": the prompt of test::prompt_with_ansi_escape_codes
ColoredPrompt == <<27, 91, 49, 59, 51, 50, 109, 62, 62, 27, 91, 48, 109, 32>>

\* terminal widths the prompt is measured at
PromptCols == {4, 80}

\* escape runs ESC [ <digits and ';'> <final>: "\x1b[m" and "\x1b[1;m"
EscapeRuns == {<<27, 91, 109>>, <<27, 91, 49, 59, 109>>}

\* the text t with the run r put after its first k characters
Insert(t, k, r) == SubSeq(t, 1, k) \o r \o SubSeq(t, k + 1, Len(t))

\* the characters of the texts an escape run is put into
RunBaseChars == {97, 9, Ord["ESC"]}

\* texts with an escape run between two of their characters
RunTexts ==
    {Insert(t, k, r) : <<t, k, r>> \in
        UNION {[1..n -> RunBaseChars] \X (1..(n - 1)) \X EscapeRuns : n \in 2..MaxText}}

InitGeometry ==
    /\ platform \in {"unix", "windows"}
    /\ log_enabled = FALSE
    /\ logged = {}
    /\ InitSession
    /\ InitReaderIdle
    /\ timeout_ms = -1
    /\ stdin_readable = FALSE
    /\ dec = NoDec
    /\ InitRenderIdle
    /\ \E sc \in ((Texts \cup (IF platform = "unix" THEN RunTexts ELSE {})) \X (1..MaxCols))
                  \cup ({ColoredPrompt} \X PromptCols) :
       LET s == sc[1]
           cols == sc[2]
       IN
       \E col \in 0..(cols - 1),
          tab_stop \in (IF platform = "unix" THEN 1..MaxTab ELSE {1}) :
          geo = [s |-> s, orig |-> [row |-> 0, col |-> col], cols |-> cols,
                 tab_stop |-> tab_stop, done |-> FALSE,
                 pos |-> [row |-> 0, col |-> col]]

NextGeometry ==
    \/ PosixRenderer_calculate_position
    \/ ConsoleRenderer_calculate_position

SpecGeometry == InitGeometry /\ [][NextGeometry]_vars

(***************************************************************************)
(* Claims on the geometry engine (checked under SpecGeometry)              *)
(***************************************************************************)
\* every character of s is one column wide
SingleWidthText(s) == \A i \in 1..Len(s) : s[i] \in {97, Ord["1"], Ord["["]}

Min(a, b) == IF a < b THEN a ELSE b

\* C20: for a text s of single-width characters (no wide character, tab,
\* escape or newline) measured from {row 0, col 0}, calculate_position returns
\* col = len(s) mod cols and row = len(s) div cols.
C20_PlainTextPosition ==
    (geo.done /\ SingleWidthText(geo.s) /\ geo.orig = [row |-> 0, col |-> 0])
    => /\ geo.pos.col = Len(geo.s) % geo.cols
       /\ geo.pos.row = Len(geo.s) \div geo.cols

C20_Witness ==
    /\ geo.done
    /\ SingleWidthText(geo.s)
    /\ geo.orig = [row |-> 0, col |-> 0]
    /\ Len(geo.s) = 4
    /\ geo.cols = 3
    /\ geo.pos = [row |-> 1, col |-> 1]

\* C20 as stated: col = min(len(s), cols) and row = len(s) div cols
C20_AsStated ==
    (geo.done /\ SingleWidthText(geo.s) /\ geo.orig = [row |-> 0, col |-> 0])
    => /\ geo.pos.col = Min(Len(geo.s), geo.cols)
       /\ geo.pos.row = Len(geo.s) \div geo.cols

\* C21: for every text, width cols >= 1, tab stop >= 1 and start column
\* < cols, the position calculate_position returns has col < cols.
C21_ColumnBound ==
    (geo.done /\ geo.orig.col < geo.cols) => geo.pos.col < geo.cols

\* the length of the escape run ESC [ <digits and ';'> <final> that starts at
\* s[k], 0 when none does
RECURSIVE RunParams(_, _)
RunParams(s, k) ==
    IF k <= Len(s) /\ (is_digit(s[k]) \/ s[k] = Ord[";"]) THEN 1 + RunParams(s, k + 1) ELSE 0

RunAt(s, k) ==
    IF k + 1 <= Len(s) /\ s[k] = Ord["ESC"] /\ s[k + 1] = Ord["["]
       /\ k + 2 + RunParams(s, k + 2) <= Len(s)
    THEN 3 + RunParams(s, k + 2)
    ELSE 0

\* C22 (example): on a terminal wider than 3 columns the prompt
\* "\x1b[1;32m>>\x1b[0m " measured from {row 0, col 0} ends at {row 0, col 3}.
C22_ColoredPrompt ==
    (geo.done /\ platform = "unix" /\ geo.s = ColoredPrompt /\ geo.cols > 3
     /\ geo.orig = [row |-> 0, col |-> 0])
    => geo.pos = [row |-> 0, col |-> 3]

\* C22 (general): an escape run ESC [ <digits and ';'> <final> between two
\* clusters of a text does not change the position calculate_position returns:
\* the text with the run and the text without it end at the same position.
C22_EscapeRunsZeroWidth ==
    (geo.done /\ platform = "unix")
    => \A k \in 2..Len(geo.s) :
          (RunAt(geo.s, k) > 0 /\ k + RunAt(geo.s, k) <= Len(geo.s))
          => geo.pos = PosixCalculatePosition(
                          SubSeq(geo.s, 1, k - 1)
                              \o SubSeq(geo.s, k + RunAt(geo.s, k), Len(geo.s)),
                          geo.orig, geo.cols, geo.tab_stop)

\* the smallest multiple of tab_stop strictly greater than c
NextTabStop(c, tab_stop) == ((c \div tab_stop) + 1) * tab_stop

\* C23: a tab met at column c moves the column to the smallest multiple of
\* tab_stop strictly greater than c, subject only to the final normalization
\* of a column equal to the width (here for the text "\t" measured from
\* column c of row 0).
C23_TabAdvances ==
    (geo.done /\ geo.s = <<9>>)
    => geo.pos = IF NextTabStop(geo.orig.col, geo.tab_stop) = geo.cols
                 THEN [row |-> geo.orig.row + 1, col |-> 0]
                 ELSE [row |-> geo.orig.row,
                       col |-> NextTabStop(geo.orig.col, geo.tab_stop)]

RECURSIVE Newlines(_)
\* the number of newline characters in s
Newlines(s) ==
    IF s = <<>> THEN 0
    ELSE (IF Head(s) = Ord["LF"] THEN 1 ELSE 0) + Newlines(Tail(s))

\* C24: every newline of the text increases the row by exactly one and the row
\* never decreases, so the row calculate_position returns is at least the
\* starting row plus the number of newlines in the text.
C24_NewlineAdvancesRow ==
    geo.done => geo.pos.row >= geo.orig.row + Newlines(geo.s)

(***************************************************************************)
(* The renderer: move_cursor and refresh_line, and the terminal that       *)
(* interprets what they write                                              *)
(***************************************************************************)
\* a control sequence or a run of text written to the terminal:
\* "A" "B" "C" "D" are ESC [ n A/B/C/D (n = None: the parameterless form),
\* "K" is ESC [ 0 K, "\r" and "\n" the control characters, "6n" the
\* cursor-position request and "text" prompt + line + hint
Code(c, n) == [c |-> c, n |-> n]

\* the count a terminal takes from a movement code: 1 when it has no (or a
\* zero) parameter
Count(code) == IF code.n = None \/ code.n = Some(0) THEN 1 ELSE code.n[1]

Max(a, b) == IF a > b THEN a ELSE b

\* the terminal's cursor after one code; text leaves it at `end`
TerminalApply(cur, code, end) ==
    CASE code.c = "A" -> [cur EXCEPT !.row = Max(0, cur.row - Count(code))]
      [] code.c = "B" -> [cur EXCEPT !.row = Min(win.rows - 1, cur.row + Count(code))]
      [] code.c = "C" -> [cur EXCEPT !.col = Min(win.cols - 1, cur.col + Count(code))]
      [] code.c = "D" -> [cur EXCEPT !.col = Max(0, cur.col - Count(code))]
      [] code.c = "\r" -> [cur EXCEPT !.col = 0]
      [] code.c = "\n" -> [row |-> Min(win.rows - 1, cur.row + 1), col |-> 0]
      [] code.c = "text" -> end
      [] OTHER -> cur

RECURSIVE TerminalApplyAll(_, _, _)
\* the terminal's cursor after the codes of buf, in order
TerminalApplyAll(cur, buf, end) ==
    IF buf = <<>> THEN cur
    ELSE TerminalApplyAll(TerminalApply(cur, Head(buf), end), Tail(buf), end)

\* every movement carries its count
MoveCode_Counted(c, row_shift) == <<Code(c, Some(row_shift))>>

\* if row_shift == 1 { push_str("\x1b[X") } else { write!("\x1b[{}X", row_shift) }
\* (col_shift likewise)
MoveCode(c, row_shift) ==
    IF row_shift = 1 THEN <<Code(c, None)>> ELSE <<Code(c, Some(row_shift))>>

\* the buffer PosixRenderer::move_cursor builds
MoveCursorCodes(old, new) ==
    (IF new.row > old.row THEN MoveCode("B", new.row - old.row)
     ELSE IF new.row < old.row THEN MoveCode("A", old.row - new.row)
     ELSE <<>>)
    \o (IF new.col > old.col THEN MoveCode("C", new.col - old.col)
        ELSE IF new.col < old.col THEN MoveCode("D", old.col - new.col)
        ELSE <<>>)

\* positions on the screen
Positions == [row : 0..MaxRow, col : 0..(win.cols - 1)]

\* layouts compute_layout produces: the cursor is not after the end
Layouts ==
    {l \in [cursor : Positions, end : Positions] :
        \/ l.cursor.row < l.end.row
        \/ l.cursor.row = l.end.row /\ l.cursor.col <= l.end.col}

\* the renderer call returns
RenderReturns(op, ok, old, new, written, value) ==
    out' = [NoOut EXCEPT !.op = op, !.ok = ok, !.old = old, !.new = new,
                         !.before = cursor, !.written = written, !.value = value]

\* PosixRenderer::move_cursor(old, new), called with the cursor the editor
\* believes in and the one it wants
PosixRenderer_move_cursor ==
    /\ platform = "unix"
    /\ wr.created
    /\ out.op = "none"
    /\ \E new \in Positions, ok \in BOOLEAN :
       LET old == layout.cursor
           buffer == MoveCursorCodes(old, new)
       IN  IF ok
           THEN /\ cursor' = TerminalApplyAll(cursor, buffer, cursor)
                /\ layout' = [layout EXCEPT !.cursor = new]
                /\ RenderReturns("move_cursor", TRUE, old, new, buffer, 0)
           ELSE \* write_and_flush failed
                /\ RenderReturns("move_cursor", FALSE, old, new, <<>>, 0)
                /\ UNCHANGED <<cursor, layout>>
    /\ UNCHANGED <<envVars, ttyVars, rdVars, decVars, geoVars, color_mode, wr, win>>

\* SetConsoleCursorPosition accepts the coordinates
OnScreen(pos) ==
    /\ 0 <= pos.row /\ pos.row < win.rows
    /\ 0 <= pos.col /\ pos.col < win.cols

\* ConsoleRenderer::move_cursor(old, new)
ConsoleRenderer_move_cursor ==
    /\ platform = "windows"
    /\ wr.created
    /\ out.op = "none"
    /\ \E new \in Positions, fail \in {"none", "info", "set"} :
       LET old == layout.cursor
           \* cursor.Y += new.row - old.row (or -=); cursor.X likewise
           target == [row |-> cursor.row + (new.row - old.row),
                      col |-> cursor.col + (new.col - old.col)]
       IN  IF fail = "none" /\ OnScreen(target)
           THEN /\ cursor' = target
                /\ layout' = [layout EXCEPT !.cursor = new]
                /\ RenderReturns("move_cursor", TRUE, old, new, <<>>, 0)
           ELSE /\ RenderReturns("move_cursor", FALSE, old, new, <<>>, 0)
                /\ UNCHANGED <<cursor, layout>>
    /\ UNCHANGED <<envVars, ttyVars, rdVars, decVars, geoVars, color_mode, wr, win>>

\* usize::saturating_sub
saturating_sub(a, b) == IF a > b THEN a - b ELSE 0

RECURSIVE Repeat(_, _)
\* for _ in 0..n { push_str(codes) }
Repeat(codes, n) == IF n = 0 THEN <<>> ELSE codes \o Repeat(codes, n - 1)

\* the column is moved from wherever the cursor is
PositionColumn_Relative(col) ==
    IF col = 0 THEN <<Code("\r", None)>> ELSE <<Code("C", Some(col))>>

\* if cursor.col == 0 { push('\r') } else { write!("\r\x1b[{}C", cursor.col) }
PositionColumn(col) ==
    IF col = 0 THEN <<Code("\r", None)>>
    ELSE <<Code("\r", None), Code("C", Some(col))>>

\* add_prompt_and_highlight and the hint: prompt, line and hint are pushed to
\* the buffer; the cursor handed in is left as it is
add_prompt_and_highlight(buffer, cur) ==
    [buffer |-> buffer \o <<Code("text", None)>>, cursor |-> cur]

\* the buffer PosixRenderer::refresh_line builds
RefreshLineCodes(old_layout, new_layout) ==
    LET current_row == old_layout.cursor.row
        old_rows == old_layout.end.row
        cursor_row_movement == saturating_sub(old_rows, current_row)
        cleared ==
            (IF cursor_row_movement > 0
             THEN <<Code("B", Some(cursor_row_movement))>> ELSE <<>>)
            \o Repeat(<<Code("\r", None), Code("K", Some(0)), Code("A", None)>>, old_rows)
            \o <<Code("\r", None), Code("K", Some(0))>>
        shown == add_prompt_and_highlight(cleared, new_layout.cursor)
        new_cursor_row_movement == new_layout.end.row - shown.cursor.row
    IN  shown.buffer
        \o (IF new_cursor_row_movement > 0
            THEN <<Code("A", Some(new_cursor_row_movement))>> ELSE <<>>)
        \o PositionColumn(shown.cursor.col)

\* where the text written from `start` ends: new_layout.end, counted from the
\* row the text began on
TextEnd(start, end) == [row |-> Min(win.rows - 1, start.row + end.row), col |-> end.col]

\* the terminal's cursor after the buffer of refresh_line
RECURSIVE TerminalShows(_, _, _)
TerminalShows(cur, buf, end) ==
    IF buf = <<>> THEN cur
    ELSE TerminalShows(TerminalApply(cur, Head(buf), TextEnd(cur, end)), Tail(buf), end)

\* PosixRenderer::refresh_line(prompt, line, hint, old_layout, new_layout, highlighter)
PosixRenderer_refresh_line ==
    /\ platform = "unix"
    /\ wr.created
    /\ out.op = "none"
    /\ \E new_layout \in Layouts, ok \in BOOLEAN :
       LET buffer == RefreshLineCodes(layout, new_layout)
       IN  IF ok
           THEN /\ cursor' = TerminalShows(cursor, buffer, new_layout.end)
                /\ layout' = new_layout
                /\ RenderReturns("refresh_line", TRUE, layout, new_layout, buffer, 0)
           ELSE \* write_and_flush failed
                /\ RenderReturns("refresh_line", FALSE, layout, new_layout, <<>>, 0)
                /\ UNCHANGED <<cursor, layout>>
    /\ UNCHANGED <<envVars, ttyVars, rdVars, decVars, geoVars, color_mode, wr, win>>

\* ConsoleRenderer::refresh_line: `fail` is the console call that fails
ConsoleRenderer_refresh_line ==
    /\ platform = "windows"
    /\ wr.created
    /\ out.op = "none"
    /\ \E new_layout \in Layouts,
          fail \in {"none", "info", "set", "clear", "write", "info2", "set2"} :
       LET shown == add_prompt_and_highlight(<<>>, new_layout.cursor)
           \* coord.X = 0; coord.Y -= current_row
           start == [row |-> cursor.row - layout.cursor.row, col |-> 0]
           written == TextEnd(start, new_layout.end)
           \* coord.X = cursor.col; coord.Y -= end_pos.row - cursor.row
           final == [row |-> written.row - (new_layout.end.row - shown.cursor.row),
                     col |-> shown.cursor.col]
           Err == RenderReturns("refresh_line", FALSE, layout, new_layout, <<>>, 0)
       IN  IF fail = "info" \/ fail = "set" \/ ~OnScreen(start)
           THEN Err /\ UNCHANGED <<cursor, layout>>
           ELSE IF fail = "clear" \/ fail = "write"
           THEN Err /\ cursor' = start /\ UNCHANGED layout
           ELSE IF fail = "info2" \/ fail = "set2" \/ ~OnScreen(final)
           THEN Err /\ cursor' = written /\ UNCHANGED layout
           ELSE /\ cursor' = final
                /\ layout' = new_layout
                /\ RenderReturns("refresh_line", TRUE, layout, new_layout, shown.buffer, 0)
    /\ UNCHANGED <<envVars, ttyVars, rdVars, decVars, geoVars, color_mode, wr, win>>

(***************************************************************************)
(* SpecRender: a renderer on a terminal of win.cols columns, the editor    *)
(* calling move_cursor or refresh_line with the layout it holds.  Init     *)
(* ranges over the layouts and cursors earlier calls can have left, and    *)
(* one call is followed from each.                                         *)
(***************************************************************************)
InitRender ==
    /\ platform \in {"unix", "windows"}
    /\ log_enabled = FALSE
    /\ logged = {}
    /\ InitSession
    /\ InitReaderIdle
    /\ timeout_ms = -1
    /\ stdin_readable = FALSE
    /\ dec = NoDec
    /\ geo = NoGeo
    /\ color_mode = "Enabled"
    /\ win \in [cols : 1..MaxCols, rows : {MaxRow + 1}, ok : {TRUE}]
    /\ wr = [created |-> TRUE, cols |-> win.cols, colors_enabled |-> FALSE, seen |-> FALSE]
    /\ layout \in [cursor : Positions, end : Positions]
    \* the terminal cursor is where the layout says, or where a refresh_line
    \* that failed half-way left it
    /\ cursor \in {layout.cursor, layout.end, Origin}
    /\ out = NoOut

NextRender ==
    \/ PosixRenderer_move_cursor
    \/ ConsoleRenderer_move_cursor
    \/ PosixRenderer_refresh_line
    \/ ConsoleRenderer_refresh_line

SpecRender == InitRender /\ [][NextRender]_vars

(***************************************************************************)
(* Claims on the renderer (checked under SpecRender)                       *)
(***************************************************************************)
\* the code the claim names for a movement of `magnitude` in direction c
AxisCode(c, magnitude) ==
    IF magnitude = 0 THEN <<>>
    ELSE IF magnitude = 1 THEN <<Code(c, None)>>
    ELSE <<Code(c, Some(magnitude))>>

Abs(x) == IF x < 0 THEN -x ELSE x

\* C26: move_cursor(old, new) that returns Ok has emitted (Unix), for the row
\* axis and then the column axis, nothing for a delta of 0, ESC [ A/B/C/D for a
\* magnitude of 1 and ESC [ n A/B/C/D otherwise, in the direction from old to
\* new; when the terminal cursor was at old it is at new afterwards.
C26_MoveCursor ==
    (out.op = "move_cursor" /\ out.ok)
    => /\ platform = "unix" =>
            out.written =
                AxisCode(IF out.new.row > out.old.row THEN "B" ELSE "A",
                         Abs(out.new.row - out.old.row))
                \o AxisCode(IF out.new.col > out.old.col THEN "C" ELSE "D",
                            Abs(out.new.col - out.old.col))
       /\ out.before = out.old => cursor = out.new

C26_Witness ==
    /\ out.op = "move_cursor" /\ out.ok /\ platform = "unix"
    /\ out.old = [row |-> 2, col |-> 1]
    /\ out.new = [row |-> 0, col |-> 2]
    /\ out.written = <<Code("A", Some(2)), Code("C", None)>>
    /\ cursor = out.new

\* C25: refresh_line that returns Ok, called with the terminal cursor at
\* old_layout.cursor and old_layout.cursor.row <= old_layout.end.row, leaves
\* the terminal cursor at new_layout.cursor (the text written having left it at
\* new_layout.end); with identical layouts the cursor is where it was.
C25_RefreshLineCursor ==
    (out.op = "refresh_line" /\ out.ok /\ out.before = out.old.cursor
     /\ out.old.cursor.row <= out.old.end.row)
    => /\ cursor = out.new.cursor
       /\ out.new = out.old => cursor = out.before

C25_Witness ==
    /\ out.op = "refresh_line" /\ out.ok /\ platform = "unix"
    /\ out.old = [cursor |-> [row |-> 0, col |-> 1], end |-> [row |-> 2, col |-> 0]]
    /\ out.before = out.old.cursor
    /\ out.new = [cursor |-> [row |-> 1, col |-> 2], end |-> [row |-> 2, col |-> 1]]
    /\ cursor = out.new.cursor

(***************************************************************************)
(* Terminal size: get_win_size, update_size, get_columns, get_rows         *)
(***************************************************************************)
\* get_win_size: (ws_col, ws_row) of TIOCGWINSZ / (dwSize.X, window height)
\* of GetConsoleScreenBufferInfo, (80, 24) when the query fails
get_win_size == IF win.ok THEN [cols |-> win.cols, rows |-> win.rows]
                ELSE [cols |-> 80, rows |-> 24]

\* the sizes the terminal can take
WinSizes == [cols : 1..MaxCols, rows : 1..(MaxRow + 1), ok : BOOLEAN]

\* the user resizes the terminal, or the output stops or starts answering the
\* size query
TerminalResizes ==
    /\ win' \in WinSizes \ {win}
    /\ UNCHANGED <<envVars, ttyVars, rdVars, decVars, geoVars, color_mode, wr, cursor,
                   layout, out>>

\* update_size(): let (cols, _) = get_win_size(..); self.cols = cols
update_size ==
    /\ wr.created
    /\ wr' = [wr EXCEPT !.cols = get_win_size.cols]
    /\ RenderReturns("update_size", TRUE, NoLayout, NoLayout, <<>>, 0)
    /\ UNCHANGED <<envVars, ttyVars, rdVars, decVars, geoVars, color_mode, win, cursor,
                   layout>>

\* get_columns(): self.cols
get_columns ==
    /\ wr.created
    /\ RenderReturns("get_columns", TRUE, NoLayout, NoLayout, <<>>, wr.cols)
    /\ UNCHANGED <<envVars, ttyVars, rdVars, decVars, geoVars, color_mode, wr, win,
                   cursor, layout>>

\* get_rows(): let (_, rows) = get_win_size(..); rows
get_rows ==
    /\ wr.created
    /\ RenderReturns("get_rows", TRUE, NoLayout, NoLayout, <<>>, get_win_size.rows)
    /\ UNCHANGED <<envVars, ttyVars, rdVars, decVars, geoVars, color_mode, wr, win,
                   cursor, layout>>

(***************************************************************************)
(* SpecSize: a renderer constructed on a terminal that is resized while    *)
(* the size operations are called                                          *)
(***************************************************************************)
InitSize ==
    /\ platform \in {"unix", "windows"}
    /\ log_enabled = FALSE
    /\ logged = {}
    /\ InitSession
    /\ InitReaderIdle
    /\ timeout_ms = -1
    /\ stdin_readable = FALSE
    /\ dec = NoDec
    /\ geo = NoGeo
    /\ color_mode = "Enabled"
    /\ win \in WinSizes
    \* PosixRenderer::new / ConsoleRenderer::new: let (cols, _) = get_win_size(..)
    /\ wr = [created |-> TRUE, cols |-> get_win_size.cols, colors_enabled |-> FALSE,
             seen |-> FALSE]
    /\ cursor = Origin
    /\ layout = NoLayout
    /\ out = NoOut

NextSize ==
    \/ TerminalResizes
    \/ update_size
    \/ get_columns
    \/ get_rows

SpecSize == InitSize /\ [][NextSize]_vars

\* C27: get_columns() returns the terminal's current column count and
\* get_rows() its current row count, whatever size changes came before, and
\* they return 80 and 24 when the size query fails.
C27_SizesAreCurrent ==
    [][/\ (out' # out /\ out'.op = "get_columns")
          => out'.value = (IF win.ok THEN win.cols ELSE 80)
       /\ (out' # out /\ out'.op = "get_rows")
          => out'.value = (IF win.ok THEN win.rows ELSE 24)]_vars

(***************************************************************************)
(* Colors: Terminal::colors_enabled, create_writer and the renderer's      *)
(* colors_enabled()                                                        *)
(***************************************************************************)
ColorModes == {"Enabled", "Forced", "Disabled"}

\* PosixTerminal::colors_enabled
PosixTerminal_colors_enabled ==
    CASE color_mode = "Enabled" -> stdstream_isatty
      [] color_mode = "Forced" -> TRUE
      [] color_mode = "Disabled" -> FALSE

\* Console::colors_enabled
Console_colors_enabled ==
    CASE color_mode = "Enabled" -> stdstream_isatty /\ ansi_colors_supported
      [] color_mode = "Forced" -> TRUE
      [] color_mode = "Disabled" -> FALSE

\* create_writer: PosixRenderer::new(.., self.colors_enabled(), ..) /
\* ConsoleRenderer::new(.., self.colors_enabled(), ..)
create_writer ==
    /\ ~wr.created
    /\ wr' = [created |-> TRUE, cols |-> get_win_size.cols,
              colors_enabled |-> IF platform = "unix" THEN PosixTerminal_colors_enabled
                                 ELSE Console_colors_enabled,
              seen |-> ansi_colors_supported]
    /\ RenderReturns("create_writer", TRUE, NoLayout, NoLayout, <<>>, 0)
    /\ UNCHANGED <<envVars, ttyVars, rdVars, decVars, geoVars, color_mode, win, cursor,
                   layout>>

\* the renderer asks the terminal object again
RendererColors_Live ==
    IF platform = "unix" THEN PosixTerminal_colors_enabled ELSE Console_colors_enabled

\* PosixRenderer::colors_enabled / ConsoleRenderer::colors_enabled: self.colors_enabled
RendererColors == wr.colors_enabled

\* the renderer's colors_enabled() is called
colors_enabled ==
    /\ wr.created
    /\ RenderReturns("colors_enabled", TRUE, NoLayout, NoLayout, <<>>, RendererColors)
    /\ UNCHANGED <<envVars, ttyVars, rdVars, decVars, geoVars, color_mode, wr, win,
                   cursor, layout>>

(***************************************************************************)
(* SpecColors: the raw-mode lifecycle with a renderer created at any point *)
(* of it and asked for colors_enabled()                                    *)
(***************************************************************************)
InitColors ==
    /\ InitEnv
    /\ InitTerminal
    /\ InitReaderIdle
    /\ timeout_ms = -1
    /\ stdin_readable = FALSE
    /\ dec = NoDec
    /\ geo = NoGeo
    /\ color_mode \in ColorModes
    /\ wr = NoWriter
    /\ win = [cols |-> 1, rows |-> 1, ok |-> TRUE]
    /\ cursor = Origin
    /\ layout = NoLayout
    /\ out = NoOut

NextColors ==
    \/ PosixTerminal_enable_raw_mode
    \/ PosixMode_disable_raw_mode
    \/ Console_enable_raw_mode
    \/ ConsoleMode_disable_raw_mode
    \/ create_writer
    \/ colors_enabled

SpecColors == InitColors /\ [][NextColors]_vars

\* C28: a renderer's colors_enabled() is true for mode Forced, false for
\* Disabled, and for Enabled the output stream's TTY-ness (on Windows together
\* with whether virtual-terminal processing had been enabled on the output when
\* the renderer was constructed); no later enable_raw_mode / disable_raw_mode
\* step changes the value, and colors_enabled() returns it.
C28_ColorsResolvedOnce ==
    [][/\ wr'.created
          => wr'.colors_enabled =
                (CASE color_mode = "Forced" -> TRUE
                   [] color_mode = "Disabled" -> FALSE
                   [] color_mode = "Enabled" ->
                        stdstream_isatty /\ (platform = "windows" => wr'.seen))
       /\ wr.created => wr' = wr
       /\ (out' # out /\ out'.op = "colors_enabled") => out'.value = wr.colors_enabled]_vars

\* a renderer that answers TRUE although the terminal object no longer would
C28_Witness ==
    /\ platform = "windows"
    /\ color_mode = "Enabled"
    /\ wr.created /\ wr.colors_enabled
    /\ ~ansi_colors_supported
    /\ out.op = "colors_enabled" /\ out.value = TRUE

(***************************************************************************)
(* The leftmost-cursor probe: PosixRenderer::move_cursor_at_leftmost       *)
(*   out.at = "poll(0)"    about to ask whether input is pending           *)
(*            "request"    about to write ESC [ 6 n                        *)
(*            "poll(100)"  waiting for the response                        *)
(*            "ESC" "["    in the next_char that must return that char     *)
(*            "row" "col"  in read_digits_until(';') / read_digits_until('R') *)
(*            "newline"    about to write "\n"                             *)
(*            ""           no call in progress                             *)
(***************************************************************************)
\* bytes the probe can read: a cursor report, other input, a byte that is
\* not UTF-8
ProbeBytes ==
    {Ord["ESC"], Ord["["], Ord[";"], Ord["R"], Ord["0"], Ord["1"], Ord["2"], Ord["a"], 255}

\* move_cursor_at_leftmost returns
ProbeReturns(ok, err, msg) ==
    /\ out' = [out EXCEPT !.at = "", !.ok = ok, !.err = err]
    /\ logged' = IF msg = "" THEN logged ELSE Log(msg)

\* a newline is written whatever column was reported
NeedsNewline_Always(col) == col # None

\* if col.is_some() && col != Some(1)
NeedsNewline(col) == col # None /\ col # Some(1)

\* the session calls move_cursor_at_leftmost(rdr)
PosixRenderer_move_cursor_at_leftmost ==
    /\ platform = "unix"
    /\ wr.created
    /\ out.at = ""
    /\ dec.op = "none"
    /\ out' = [NoOut EXCEPT !.op = "move_cursor_at_leftmost", !.at = "poll(0)"]
    /\ UNCHANGED <<envVars, ttyVars, rdVars, decVars, geoVars, color_mode, wr, win, cursor,
                   layout>>

\* rdr.poll(0)? and rdr.poll(100)?
ProbePolls ==
    /\ platform = "unix"
    /\ out.at \in {"poll(0)", "poll(100)"}
    /\ LET n == PollResult(stdin_readable, stdin_closed)
       IN  \E interrupted \in BOOLEAN :
              IF interrupted THEN
                  /\ n = 0
                  /\ out.at = "poll(100)"
                  /\ ProbeReturns(FALSE, "EINTR", "")
              ELSE IF out.at = "poll(0)" THEN
                  IF n # 0
                  THEN /\ out' = [out EXCEPT !.at = "", !.ok = TRUE, !.pending = TRUE]
                       /\ logged' = Log("cannot request cursor location")
                  ELSE /\ out' = [out EXCEPT !.at = "request"]
                       /\ UNCHANGED logged
              ELSE
                  IF n = 0
                  THEN ProbeReturns(TRUE, "", "cannot read initial cursor location")
                  ELSE /\ out' = [out EXCEPT !.at = "ESC"]
                       /\ UNCHANGED logged
    /\ UNCHANGED <<platform, log_enabled, ttyVars, rdVars, decVars, geoVars, color_mode, wr,
                   win, cursor, layout>>

\* self.write_and_flush(b"\x1b[6n")? and self.write_and_flush(b"\n")?
ProbeWrites ==
    /\ platform = "unix"
    /\ out.at \in {"request", "newline"}
    /\ \E ok \in BOOLEAN :
          IF ~ok THEN ProbeReturns(FALSE, "io", "")
          ELSE IF out.at = "request"
          THEN /\ out' = [out EXCEPT !.at = "poll(100)",
                                     !.written = Append(@, Code("6n", None))]
               /\ UNCHANGED logged
          ELSE /\ out' = [out EXCEPT !.at = "", !.ok = TRUE,
                                     !.written = Append(@, Code("\n", None))]
               /\ UNCHANGED logged
    /\ UNCHANGED <<platform, log_enabled, ttyVars, rdVars, decVars, geoVars, color_mode, wr,
                   win, cursor, layout>>

\* num.saturating_mul(10).saturating_add(digit): the numbers read stay far
\* below u32::MAX
AddDigit(num, c) == num * 10 + (c - Ord["0"])

\* next_char has returned Ok(c) to the probe
ProbeTakesChar(c) ==
    LET read == [out EXCEPT !.chars = Append(@, c)]
        GiveUp == /\ out' = [read EXCEPT !.at = "", !.ok = TRUE]
                  /\ logged' = Log("cannot read initial cursor location")
    IN  CASE out.at = "ESC" ->
               IF c # Ord["ESC"] THEN GiveUp
               ELSE out' = [read EXCEPT !.at = "["] /\ UNCHANGED logged
          [] out.at = "[" ->
               IF c # Ord["["] THEN GiveUp
               ELSE out' = [read EXCEPT !.at = "row", !.num = 0] /\ UNCHANGED logged
          [] out.at = "row" ->
               IF is_digit(c)
               THEN out' = [read EXCEPT !.num = AddDigit(@, c)] /\ UNCHANGED logged
               ELSE IF c = Ord[";"]
               THEN out' = [read EXCEPT !.at = "col", !.num = 0] /\ UNCHANGED logged
               ELSE GiveUp
          [] out.at = "col" ->
               IF is_digit(c)
               THEN out' = [read EXCEPT !.num = AddDigit(@, c)] /\ UNCHANGED logged
               ELSE LET col == IF c = Ord["R"] THEN Some(out.num) ELSE None
                    IN  /\ logged' = Log("initial cursor location")
                        /\ out' = IF NeedsNewline(col)
                                  THEN [read EXCEPT !.at = "newline"]
                                  ELSE [read EXCEPT !.at = "", !.ok = TRUE]

\* rdr.next_char()? of the probe and of read_digits_until: stdin is readable
\* and the byte read is any of ProbeBytes
ProbeReadsByte ==
    /\ platform = "unix"
    /\ out.at \in {"ESC", "[", "row", "col"}
    /\ stdin_readable
    /\ Len(out.chars) < MaxReport
    /\ \E b \in ProbeBytes :
          LET adv == ParserAdvance(parser, receiver, b)
          IN  /\ parser' = adv.parser
              /\ IF ReceiverInvalid(adv.receiver) THEN
                     /\ receiver' = adv.receiver
                     /\ ProbeReturns(FALSE, "Utf8Error", "")
                 ELSE IF adv.receiver.c # None THEN
                     /\ receiver' = [adv.receiver EXCEPT !.c = None]
                     /\ ProbeTakesChar(adv.receiver.c[1])
                 ELSE
                     /\ receiver' = adv.receiver
                     /\ UNCHANGED <<out, logged>>
    /\ stdin_readable' \in BOOLEAN
    /\ UNCHANGED <<platform, log_enabled, ttyVars, SIGWINCH, in_handler, stdin_queue,
                   stdin_closed, pc, errno, surrogate, ret, noticed, resize_reported,
                   retried, arrived_in_call, timeout_ms, dec, geoVars, color_mode, wr, win,
                   cursor, layout>>

\* libc::read returns 0 at end of file: next_char returns Eof to the probe
ProbeReadsEof ==
    /\ platform = "unix"
    /\ out.at \in {"ESC", "[", "row", "col"}
    /\ ~stdin_readable
    /\ stdin_closed
    /\ ProbeReturns(FALSE, "Eof", "")
    /\ UNCHANGED <<platform, log_enabled, ttyVars, rdVars, decVars, geoVars, color_mode, wr,
                   win, cursor, layout>>

(***************************************************************************)
(* SpecProbe: move_cursor_at_leftmost on a terminal that answers, answers  *)
(* something else, or does not answer                                      *)
(***************************************************************************)
InitProbe ==
    /\ platform = "unix"
    /\ log_enabled \in BOOLEAN
    /\ logged = {}
    /\ InitSession
    /\ InitReaderIdle
    /\ timeout_ms = -1
    /\ stdin_readable \in BOOLEAN
    /\ dec = NoDec
    /\ geo = NoGeo
    /\ color_mode = "Enabled"
    /\ win = [cols |-> 1, rows |-> 1, ok |-> TRUE]
    /\ wr = [created |-> TRUE, cols |-> get_win_size.cols, colors_enabled |-> TRUE,
             seen |-> FALSE]
    /\ cursor = Origin
    /\ layout = NoLayout
    /\ out = NoOut

NextProbe ==
    \/ PosixRenderer_move_cursor_at_leftmost
    \/ ProbePolls
    \/ ProbeWrites
    \/ ProbeReadsByte
    \/ ProbeReadsEof
    \/ TerminalInputArrives
    \/ StdinCloses

SpecProbe == InitProbe /\ [][NextProbe]_vars

(***************************************************************************)
(* Claims on the leftmost-cursor probe (checked under SpecProbe)           *)
(***************************************************************************)
RECURSIVE DigitRun(_, _)
\* the number of digits of s from position k on
DigitRun(s, k) == IF k <= Len(s) /\ is_digit(s[k]) THEN 1 + DigitRun(s, k + 1) ELSE 0

RECURSIVE Decimal(_)
\* the number a run of digits denotes
Decimal(ds) ==
    IF ds = <<>> THEN 0
    ELSE Decimal(SubSeq(ds, 1, Len(ds) - 1)) * 10 + (ds[Len(ds)] - Ord["0"])

\* s is a whole cursor report ESC [ <row> ; <col> R
IsReport(s) ==
    /\ Len(s) >= 4
    /\ s[1] = Ord["ESC"]
    /\ s[2] = Ord["["]
    /\ LET r == DigitRun(s, 3)
       IN  /\ 3 + r < Len(s)
           /\ s[3 + r] = Ord[";"]
           /\ 4 + r + DigitRun(s, 4 + r) = Len(s)
           /\ s[Len(s)] = Ord["R"]

\* the column a cursor report names
ReportedColumn(s) == Decimal(SubSeq(s, 4 + DigitRun(s, 3), Len(s) - 1))

NewlineWritten == \E i \in 1..Len(out.written) : out.written[i] = Code("\n", None)

RequestWritten == \E i \in 1..Len(out.written) : out.written[i] = Code("6n", None)

\* C29: move_cursor_at_leftmost writes the cursor-position request only when
\* its poll found no input pending; when input is pending it writes nothing
\* and reads nothing; a newline is written only after a whole response
\* ESC [ <row> ; <col> R naming a column other than 1 was read, and a call
\* that returns Ok after such a response has written it.
C29_ProbeNewline ==
    out.op = "move_cursor_at_leftmost"
    => /\ RequestWritten => ~out.pending
       /\ out.pending => (out.written = <<>> /\ out.chars = <<>>)
       /\ NewlineWritten => (IsReport(out.chars) /\ ReportedColumn(out.chars) # 1)
       /\ (out.at = "" /\ out.ok /\ IsReport(out.chars) /\ ReportedColumn(out.chars) # 1)
          => NewlineWritten

C29_Witness ==
    /\ out.op = "move_cursor_at_leftmost" /\ out.at = "" /\ out.ok
    /\ out.chars = <<Ord["ESC"], Ord["["], Ord["2"], Ord[";"], Ord["2"], Ord["R"]>>
    /\ out.written = <<Code("6n", None), Code("\n", None)>>

\* C30: once the request is written, a response that is missing, malformed,
\* cut short by end of input or not valid UTF-8 makes move_cursor_at_leftmost
\* return Ok without a newline (failures of poll and of the writes set aside).
C30_ProbeNeverAborts ==
    (out.op = "move_cursor_at_leftmost" /\ out.at = "" /\ RequestWritten
     /\ ~IsReport(out.chars) /\ out.err \notin {"EINTR", "io"})
    => (out.ok /\ ~NewlineWritten)

(***************************************************************************)
(* The clearing phase of refresh_line (Unix)                               *)
(***************************************************************************)
RECURSIVE TerminalErases(_, _)
\* the rows the terminal erases whole while it interprets buf, in the order it
\* erases them: ESC [ 0 K erases from the cursor to the end of the line, which
\* is the whole row when the cursor is at column 0
TerminalErases(cur, buf) ==
    IF buf = <<>> THEN <<>>
    ELSE (IF Head(buf).c = "K" /\ cur.col = 0 THEN <<cur.row>> ELSE <<>>)
         \o TerminalErases(TerminalApply(cur, Head(buf), cur), Tail(buf))

RECURSIVE BeforeContent(_)
\* what refresh_line pushed to the buffer before add_prompt_and_highlight
BeforeContent(buf) ==
    IF buf = <<>> \/ Head(buf).c = "text" THEN <<>>
    ELSE <<Head(buf)>> \o BeforeContent(Tail(buf))

RECURSIVE Downto(_)
\* <<n, n - 1, .., 0>>
Downto(n) == IF n = 0 THEN <<0>> ELSE <<n>> \o Downto(n - 1)

\* C31: a refresh_line (Unix) that returns Ok, called with the terminal cursor
\* at old_layout.cursor, has emitted before the new content codes that first
\* take the cursor down to the row old_layout.end.row, then erase every old row
\* from the last one up to row 0, and leave the cursor at column 0 of row 0,
\* the first row of the previous render.
C31_ClearingPhase ==
    (out.op = "refresh_line" /\ out.ok /\ platform = "unix"
     /\ out.before = out.old.cursor)
    => LET clearing == BeforeContent(out.written)
           down == IF clearing # <<>> /\ Head(clearing).c = "B"
                   THEN <<Head(clearing)>> ELSE <<>>
       IN  /\ TerminalApplyAll(out.before, down, out.before).row = out.old.end.row
           /\ TerminalErases(out.before, clearing) = Downto(out.old.end.row)
           /\ TerminalApplyAll(out.before, clearing, out.before) = Origin

(***************************************************************************)
(* The UTF-8 acceptor across next_char calls (Unix)                        *)
(***************************************************************************)
\* the code points the terminal sends, as UTF-8: 'a', U+00E9, U+20AC, U+1F600
Utf8CodePoints == {<<97>>, <<195, 169>>, <<226, 130, 172>>, <<240, 159, 152, 128>>}

\* what the terminal sends at a time: a code point, the byte 0xFF, or a
\* continuation byte on its own
Utf8Chunks == Utf8CodePoints \cup {<<255>>, <<169>>}

RECURSIVE Utf8Inputs(_)
\* the byte strings made of at most n chunks
Utf8Inputs(n) ==
    IF n = 0 THEN {<<>>}
    ELSE Utf8Inputs(n - 1) \cup {c \o s : c \in Utf8Chunks, s \in Utf8Inputs(n - 1)}

RECURSIVE ReadLoop(_, _, _, _)
\* the loop of next_char over the bytes q waiting on stdin, `taken` being the
\* bytes this call has consumed: what the call returns and what it leaves
ReadLoop(p, r, q, taken) ==
    IF q = <<>>
    THEN \* n == 0
         [parser |-> p, receiver |-> r, queue |-> q, taken |-> taken,
          err |-> "Eof", chr |-> 0]
    ELSE LET adv == ParserAdvance(p, r, Head(q))
         IN  IF ReceiverInvalid(adv.receiver)
             THEN [parser |-> adv.parser, receiver |-> adv.receiver, queue |-> Tail(q),
                   taken |-> Append(taken, Head(q)), err |-> "Utf8Error", chr |-> 0]
             ELSE IF adv.receiver.c # None
             THEN [parser |-> adv.parser, receiver |-> [adv.receiver EXCEPT !.c = None],
                   queue |-> Tail(q), taken |-> Append(taken, Head(q)),
                   err |-> "", chr |-> adv.receiver.c[1]]
             ELSE ReadLoop(adv.parser, adv.receiver, Tail(q), Append(taken, Head(q)))

\* PosixRawReader::next_char, from the call to its return, on an input that
\* ends (libc::read returns 0 once the bytes are consumed)
next_char ==
    /\ platform = "unix"
    /\ pc = "idle"
    /\ stdin_closed
    /\ LET run == ReadLoop(parser, receiver, stdin_queue, <<>>)
       IN  /\ parser' = run.parser
           /\ receiver' = run.receiver
           /\ stdin_queue' = run.queue
           /\ ret' = [NoRet EXCEPT !.op = "next_char", !.ok = (run.err = ""),
                                   !.err = run.err, !.chr = run.chr,
                                   !.chars = run.taken]
    /\ UNCHANGED <<envVars, ttyVars, restVars, SIGWINCH, in_handler, stdin_closed, pc,
                   errno, surrogate, noticed, resize_reported, retried, arrived_in_call>>

(***************************************************************************)
(* SpecUtf8: a reader constructed on an input of at most MaxChunks chunks, *)
(* next_char called until the input is consumed                            *)
(***************************************************************************)
InitUtf8 ==
    /\ platform = "unix"
    /\ log_enabled = FALSE
    /\ logged = {}
    /\ InitSession
    /\ InitRestIdle
    /\ SIGWINCH = FALSE
    /\ in_handler = FALSE
    /\ stdin_queue \in Utf8Inputs(MaxChunks)
    /\ stdin_closed = TRUE
    /\ pc = "idle"
    /\ errno = ""
    \* PosixRawReader::new
    /\ parser = [state |-> "Ground", point |-> 0]
    /\ receiver = [c |-> None, valid |-> TRUE]
    /\ surrogate = 0
    /\ ret = NoRet
    /\ noticed = FALSE
    /\ resize_reported = FALSE
    /\ retried = FALSE
    /\ arrived_in_call = FALSE

NextUtf8 == next_char

SpecUtf8 == InitUtf8 /\ [][NextUtf8]_vars

\* bs is the beginning of a well-formed UTF-8 sequence (RFC 3629, table 3-7 of
\* the Unicode standard)
WellFormedPrefix(bs) ==
    LET n == Len(bs)
        cont(i, lo, hi) == n < i \/ (lo <= bs[i] /\ bs[i] <= hi)
    IN  \/ n = 0
        \/ n = 1 /\ bs[1] <= 127
        \/ n <= 2 /\ 194 <= bs[1] /\ bs[1] <= 223 /\ cont(2, 128, 191)
        \/ n <= 3 /\ bs[1] = 224 /\ cont(2, 160, 191) /\ cont(3, 128, 191)
        \/ n <= 3 /\ bs[1] \in (225..236) \cup (238..239)
                  /\ cont(2, 128, 191) /\ cont(3, 128, 191)
        \/ n <= 3 /\ bs[1] = 237 /\ cont(2, 128, 159) /\ cont(3, 128, 191)
        \/ n <= 4 /\ bs[1] = 240 /\ cont(2, 144, 191) /\ cont(3, 128, 191)
                  /\ cont(4, 128, 191)
        \/ n <= 4 /\ bs[1] \in 241..243 /\ cont(2, 128, 191) /\ cont(3, 128, 191)
                  /\ cont(4, 128, 191)
        \/ n <= 4 /\ bs[1] = 244 /\ cont(2, 128, 143) /\ cont(3, 128, 191)
                  /\ cont(4, 128, 191)

\* the code point a well-formed sequence encodes
CodePointOf(w) ==
    CASE Len(w) = 1 -> w[1]
      [] Len(w) = 2 -> (w[1] - 192) * 64 + (w[2] - 128)
      [] Len(w) = 3 -> (w[1] - 224) * 4096 + (w[2] - 128) * 64 + (w[3] - 128)
      [] OTHER -> (w[1] - 240) * 262144 + (w[2] - 128) * 4096 + (w[3] - 128) * 64
                  + (w[4] - 128)

\* w is what s begins with
StartsWith(s, w) == Len(w) <= Len(s) /\ SubSeq(s, 1, Len(w)) = w

\* C32: next_char returns Utf8Error only when the bytes that call consumed are
\* not the beginning of a well-formed sequence; and the call made after one
\* that returned Utf8Error, with a well-formed code point next in the input,
\* consumes that code point and returns it.
C32_NoErrorCarried ==
    [][(ret'.op = "next_char" /\ ret'.chars # <<>>)
       => /\ ret'.err = "Utf8Error" => ~WellFormedPrefix(ret'.chars)
          /\ (ret.op = "next_char" /\ ret.err = "Utf8Error")
             => \A w \in Utf8CodePoints :
                    StartsWith(stdin_queue, w)
                    => (ret'.ok /\ ret'.chr = CodePointOf(w) /\ ret'.chars = w)]_vars

(***************************************************************************)
(* SpecReport: next_key on a terminal that sends cursor-position reports    *)
(* (the answer to the ESC [ 6 n of move_cursor_at_leftmost arriving after   *)
(* its poll(100) gave up) and plain keys                                    *)
(***************************************************************************)
\* bytes the terminal sends: those of the reports ESC [ r ; c R with rows and
\* columns written with the digits 1 and 9, and 'a'
ReportBytes == {Ord[x] : x \in {"ESC", "[", ";", "R", "1", "9", "a"}}

\* next_key's reads on that terminal
DecoderReadsReportByte ==
    /\ platform = "unix"
    /\ dec.op = "next_key"
    /\ dec.at # "poll"
    /\ stdin_readable
    /\ \E b \in ReportBytes : DecoderRead(b)
    /\ stdin_readable' \in BOOLEAN
    /\ UNCHANGED <<platform, log_enabled, ttyVars, SIGWINCH, in_handler, stdin_queue,
                   stdin_closed, pc, errno, surrogate, noticed, resize_reported, retried,
                   arrived_in_call, timeout_ms, geoVars, renderVars>>

NextReport ==
    \/ PosixRawReader_next_key
    \/ PosixRawReader_poll
    \/ DecoderReadsReportByte
    \/ DecoderReadsEof
    \/ TerminalInputArrives
    \/ StdinCloses

SpecReport == InitKeys /\ [][NextReport]_vars

\* decimal numbers of one or two digits, 1 or more, as the terminal writes
\* them, over the digits the terminal sends in this model
ReportNumbers ==
    LET ds == {d \in Digits : d \in ReportBytes}
    IN  {<<d>> : d \in ds \ {Ord["0"]}}
        \cup {<<d1, d2>> : d1 \in ds \ {Ord["0"]}, d2 \in ds}

\* the cursor-position reports ESC [ r ; c R
Reports ==
    {<<Ord["ESC"], Ord["["]>> \o r \o <<Ord[";"]>> \o c \o <<Ord["R"]>> :
        r \in ReportNumbers, c \in ReportNumbers}

\* C33: a next_key call that reads a cursor-position report ESC [ r ; c R (r
\* and c of one or two digits, 1 or more) and returns Ok has consumed the
\* report up to and including 'R' and returns UnknownEscSeq: it never returns
\* having read only the beginning of the report.
C33_ReportConsumedWhole ==
    (ret.op = "next_key" /\ ret.ok /\ Len(ret.chars) >= 2
     /\ \E rep \in Reports : StartsWith(rep, ret.chars))
    => (ret.chars \in Reports /\ ret.key = Key("UnknownEscSeq"))

(***************************************************************************)
(* Claims on measuring a text in two parts (checked under SpecGeometry)    *)
(***************************************************************************)
\* calculate_position(s, orig) on the renderer of the call in geo
Measured(s, orig) ==
    IF platform = "unix"
    THEN PosixCalculatePosition(s, orig, geo.cols, geo.tab_stop)
    ELSE ConsoleCalculatePosition(s, orig, geo.cols)

EscapeFree(s) == \A i \in 1..Len(s) : s[i] # Ord["ESC"]

\* C34: for escape-free texts s1 and s2 and a start position p with
\* p.col < cols, calculate_position(s1 followed by s2, p) is
\* calculate_position(s2, calculate_position(s1, p)).
C34_Composes ==
    (geo.done /\ EscapeFree(geo.s) /\ geo.orig.col < geo.cols)
    => \A k \in 0..Len(geo.s) :
          LET s1 == SubSeq(geo.s, 1, k)
              s2 == SubSeq(geo.s, k + 1, Len(geo.s))
          IN  Measured(s2, Measured(s1, geo.orig)) = geo.pos

(***************************************************************************)
(* Claims on a failed enable_raw_mode (checked under Spec)                 *)
(***************************************************************************)
\* C35: whenever enable_raw_mode returns an error, and so no guard, the
\* terminal's input attribute block (termios on Unix, the console mode of the
\* stdin handle on Windows) is what it was when the call began.
C35_EnableAllOrNothing ==
    (call.op = "enable_raw_mode" /\ ~call.ok)
    => /\ call.guard = None
       /\ termios = call.entry.attrs.termios
       /\ stdin_mode = call.entry.attrs.stdin_mode

(***************************************************************************)
(* Claims on an interrupted escape wait (checked under SpecKeys)           *)
(***************************************************************************)
\* C36: next_key returns an error only when it has read no complete key: a
\* call that has read ESC and whose wait for the rest of the sequence (poll)
\* ends with an error, as when a signal interrupts it, does not return that
\* error with the ESC consumed.  The reader keeps no character between calls,
\* so an ESC consumed by a failed call is delivered by no later call.
C36_NoKeyLost ==
    (ret.op = "next_key" /\ ~ret.ok)
    => ~(ret.chars = <<Ord["ESC"]>> /\ ret.poll = "")

====
